---- MODULE Spec2Model ----
(***************************************************************************)
(* Model of the infrared pipeline of mattori-home:                         *)
(*   - the AEHA codec (src/src/ir/format/aeha.rs),                         *)
(*   - the pulse capture IrIn (mattori-home-peripherals/src/ir/input.rs,   *)
(*     with the older revision src/src/ir/input.rs),                       *)
(*   - the Sanyo appliance target (mattori-home-peripherals/src/ir/sanyo), *)
(*   - the transmitter IrOut (mattori-home-peripherals/src/ir/output.rs).  *)
(* Durations are microseconds. The specifications share the variables:     *)
(* SpecCodec, SpecDecode, SpecCapture (FairSpecCapture with fairness),     *)
(* SpecSanyo and SpecOut (FairSpecOut); each one leaves the variables of   *)
(* the other components at their initial values.                           *)
(***************************************************************************)
EXTENDS Integers, Sequences, FiniteSets, TLC

VARIABLES
    \* ---- codec ----
    frames_in,   \* the frames handed to Aeha::encode
    enc,         \* result of Aeha::encode
    data,        \* the pulses handed to Aeha::decode
    dec,         \* result of Aeha::decode
    cph,         \* "input" | "encoded" | "raw" | "fold" | "decoded"
    dstep,       \* Aeha::decode: the DecodeStep the fold has reached
    dpos,        \* Aeha::decode: index in data of the next chunk of the fold
    \* ---- revision of the sources (capture and Sanyo) ----
    rev,         \* "peripherals" (mattori-home-peripherals) | "legacy" (src/src)
                 \* | "table" (src/src/ir/sanyo/sanyo.rs, Sanyo only)
    \* ---- capture (IrIn) ----
    started,     \* outcome of IrIn::start: "no" | "gpio_err" | "ok"
    task,        \* read task: "unspawned" | "setup" | "reg_failed" | "check" |
                 \*            "await" | "handle" | "done"
    registered,  \* the async interrupt callback is registered on the pin
    init,        \* `init` captured by the interrupt closure
    gap,         \* now - last_inst (saturates at WaitTimeout)
    timer,       \* timer task: "unspawned" | "wait_start" | "sleeping" | "aborted"
    elapsed,     \* how long the current sleep(WAIT_TIMEOUT) has been running
    chan,        \* the unbounded mpsc channel of IrInterruptMessage
    last,        \* debounce: `last`, an Option: <<>> or <<duration>>
    resume,      \* debounce: what the suspended generator yields when resumed
    item,        \* what ir_pulse_stream.next() returned to the loop
    sequence,    \* the accumulator
    pulses,      \* the lock-guarded history
    watch,       \* pulse_added watch channel: [version, value (an Option)]
    sub,         \* pulse_stream subscriber: "changed" | "borrow" | "closed"
    seen,        \* the version the subscriber has seen
    got,         \* the values the subscriber has been yielded
    stop,        \* read_stop watch value
    stopret,     \* IrIn::stop(): "idle" | "joining" | "ok" | "err"
    edges,       \* number of edge interrupts so far (bounded)
    fires,       \* number of timer expiries so far (bounded)
    sent,        \* history: every message enqueued on chan, in order
    taken,       \* history: number of messages taken off chan
    outlog,      \* history: every item debounce yielded (before normalize)
    \* ---- Sanyo ----
    powered, mode, temp,
    res,         \* result of the last IrTarget operation
    no_up,       \* table revision: the ladder position whose entry has up: None
    no_down,     \* table revision: the ladder position whose entry has down: None
    lastpow,     \* history: the last successful power operation: "none" | "on" | "off"
    \* ---- transmitter (IrOut) ----
    ostarted,    \* outcome of IrOut::start: "no" | "gpio_err" | "ok"
    worker,      \* worker loop: "unspawned" | "check" | "recv" | "done"
    oqueue,      \* the mpsc channel of IrSequence
    ostop,       \* send_stop watch value
    alive,       \* the IrOut (and with it the channel's sender) has not been dropped
    jobs,        \* per sequence received: its spawn_blocking job
    hw,          \* the calls of set_pwm_sequence so far, in order
    sends,       \* history: number of sequences send() has enqueued
    late,        \* history: polls of the queue that returned after stop was set
    oret,        \* result of the last send() or stop()
    \* ---- gRPC server (HomeServer) ----
    reqs,        \* per client: its set_ac_status call (position, request, locals)
    sendlog      \* history: the clients whose send_target returned Ok, in order

codecVars   == <<frames_in, enc, data, dec, cph, dstep, dpos>>
captureVars == <<started, task, registered, init, gap, timer, elapsed, chan, last,
                 resume, item, sequence, pulses, watch, sub, seen, got, stop,
                 stopret, edges, fires, sent, taken, outlog>>
sanyoVars   == <<powered, mode, temp, res, no_up, no_down, lastpow>>
outVars     == <<ostarted, worker, oqueue, ostop, alive, jobs, hw, sends, late, oret>>
serverVars  == <<reqs, sendlog>>
vars        == <<codecVars, rev, captureVars, sanyoVars, outVars, serverVars>>

\* ------------------------------------------------------------------------
\* Bounds of the model
\* ------------------------------------------------------------------------
MaxBytes  == 2     \* bytes per frame handed to encode
MaxFrames == 2     \* frames handed to encode
MaxEdges  == 3     \* edge interrupts per run
MaxFires  == 2     \* timer expiries per run
MaxSends  == 2     \* sequences handed to IrOut::send
MaxMsgs   == 3     \* messages of a stream handed to debounce

\* byte values used as payload samples: all-zero, LSB only, MSB only
ByteSamples == {0, 1, 128}

\* ------------------------------------------------------------------------
\* Program constants
\* ------------------------------------------------------------------------
STD_CYCLE   == 425
WAIT_LENGTH == 10000
TOL         == 35          \* const TOL: f64 = 0.35, in percent
DEBOUNCE    == 100
MAX_PULSE   == 10000
WAIT_TIMEOUT        == 1000000   \* peripherals: Duration::from_millis(1000)
WAIT_TIMEOUT_LEGACY == 100000    \* legacy: Duration::from_millis(100)

\* ------------------------------------------------------------------------
\* AEHA codec
\* ------------------------------------------------------------------------
\* the comparison with the limits themselves counted as inside
in_bounds_inclusive(length, target) ==
    /\ length * 100 >= target * (100 - TOL)
    /\ length * 100 <= target * (100 + TOL)

\* fn in_bounds(length, target): length > target*(1-TOL) && length < target*(1+TOL),
\* in exact integer arithmetic (x100).  For integer lengths the f64 comparison
\* gives the same answer: target*0.65 and target*1.35 round to the exact product.
in_bounds(length, target) ==
    /\ length * 100 > target * (100 - TOL)
    /\ length * 100 < target * (100 + TOL)

\* IrFormat::in_bounds(pulse, cycles)
cycles_in_bounds(pulse, cycles) == in_bounds(pulse, STD_CYCLE * cycles)

verify_leader(first_pulse, second_pulse) ==
    cycles_in_bounds(first_pulse, 8) /\ cycles_in_bounds(second_pulse, 4)

verify_repeat(first_pulse, second_pulse) ==
    cycles_in_bounds(first_pulse, 8) /\ cycles_in_bounds(second_pulse, 8)

RECURSIVE Pow2(_)
Pow2(n) == IF n = 0 THEN 1 ELSE 2 * Pow2(n - 1)

\* the 8 (mark, space) pairs of one byte, least significant bit first
RECURSIVE encode_bits(_, _)
encode_bits(bits, n) ==
    IF n = 0 THEN <<>>
    ELSE <<STD_CYCLE, IF bits % 2 = 0 THEN STD_CYCLE ELSE STD_CYCLE * 3>>
         \o encode_bits(bits \div 2, n - 1)

RECURSIVE encode_bytes(_)
encode_bytes(bytes) ==
    IF bytes = <<>> THEN <<>>
    ELSE encode_bits(Head(bytes), 8) \o encode_bytes(Tail(bytes))

\* a fold step that passes over an empty frame instead of failing
encode_frame_skip_empty(acc, bytes) ==
    IF ~acc.ok \/ bytes = <<>> THEN acc
    ELSE [ok |-> TRUE,
          code |-> acc.code
                   \o (IF acc.is_first THEN <<WAIT_LENGTH>> ELSE <<>>)
                   \o <<STD_CYCLE * 8, STD_CYCLE * 4>>
                   \o encode_bytes(bytes)
                   \o <<STD_CYCLE>>,
          is_first |-> FALSE]

\* one step of the fold of Aeha::encode: acc is Ok((code, is_first)) or Err
encode_frame(acc, bytes) ==
    IF ~acc.ok THEN acc
    ELSE IF bytes = <<>> THEN [ok |-> FALSE, err |-> "EmptyFrame"]
    ELSE [ok |-> TRUE,
          code |-> acc.code
                   \o (IF acc.is_first THEN <<WAIT_LENGTH>> ELSE <<>>)
                   \o <<STD_CYCLE * 8, STD_CYCLE * 4>>
                   \o encode_bytes(bytes)
                   \o <<STD_CYCLE>>,
          is_first |-> FALSE]

RECURSIVE encode_fold(_, _)
encode_fold(acc, frames) ==
    IF frames = <<>> THEN acc
    ELSE encode_fold(encode_frame(acc, Head(frames)), Tail(frames))

\* Aeha::encode
encode(frames) ==
    LET r == encode_fold([ok |-> TRUE, code |-> <<>>, is_first |-> TRUE], frames)
    IN  IF r.ok THEN [ok |-> TRUE, code |-> r.code] ELSE r

\* a chunk with no second pulse: (p1, None)
NoPulse == -1

\* DecodeState at the start of the fold
decode_init ==
    [kind |-> "Continue", frames |-> <<>>, byte_list |-> <<>>, byte |-> 0,
     bit_counter |-> 0, end_of_frame |-> FALSE]

decode_error(e) == [kind |-> "Error", err |-> e]

\* a data bit was read, most significant bit first
decode_bit_msb(state, bit) ==
    LET byte == state.byte + bit * Pow2(7 - state.bit_counter)
        bc   == (state.bit_counter + 1) % 8
    IN  IF bc = 0
        THEN [state EXCEPT !.bit_counter = bc,
                           !.byte_list = Append(state.byte_list, byte),
                           !.byte = 0]
        ELSE [state EXCEPT !.bit_counter = bc, !.byte = byte]

\* a data bit was read: advance the bit counter, close the byte every 8 bits
decode_bit(state, bit) ==
    LET byte == state.byte + bit * Pow2(state.bit_counter)
        bc   == (state.bit_counter + 1) % 8
    IN  IF bc = 0
        THEN [state EXCEPT !.bit_counter = bc,
                           !.byte_list = Append(state.byte_list, byte),
                           !.byte = 0]
        ELSE [state EXCEPT !.bit_counter = bc, !.byte = byte]

\* after a frame only a leader is accepted
decode_leader_norepeat(state, p1, p2) ==
    IF p2 # NoPulse
    THEN IF verify_leader(p1, p2) THEN state ELSE decode_error("UnknownEnd")
    ELSE decode_error("OddEnd")

\* a frame has ended: the next chunk has to be a leader or a repeat pair
decode_leader(state, p1, p2) ==
    IF p2 # NoPulse
    THEN IF verify_leader(p1, p2) \/ verify_repeat(p1, p2)
         THEN state
         ELSE decode_error("UnknownEnd")
    ELSE decode_error("OddEnd")

\* a gap that keeps the bits of a partial byte
decode_gap_keep_byte(state) ==
    [state EXCEPT !.frames = Append(state.frames, state.byte_list),
                  !.byte_list = <<>>,
                  !.end_of_frame = TRUE]

\* long gap after stop means next frame
decode_gap(state) ==
    [state EXCEPT !.frames = Append(state.frames, state.byte_list),
                  !.byte_list = <<>>,
                  !.byte = 0,
                  !.end_of_frame = TRUE]

\* a (mark, space) chunk inside a frame
decode_pair(state, p1, p2) ==
    IF cycles_in_bounds(p1, 1)
    THEN IF p2 > WAIT_LENGTH \div 2 THEN decode_gap(state)
         ELSE IF cycles_in_bounds(p2, 1) THEN decode_bit(state, 0)
         ELSE IF cycles_in_bounds(p2, 3) THEN decode_bit(state, 1)
         ELSE decode_error("UnknownBit")
    ELSE decode_error("UnknownBit")

\* a lone mark that closes a partial byte as if it were complete
decode_stop_flush(state, p1) ==
    IF cycles_in_bounds(p1, 1)
    THEN [kind |-> "Finished",
          frames |-> Append(state.frames,
                            IF state.bit_counter = 0 THEN state.byte_list
                            ELSE Append(state.byte_list, state.byte))]
    ELSE decode_error("InvalidBits")

\* a lone mark accepted whatever the bit counter is
decode_stop_any_counter(state, p1) ==
    IF cycles_in_bounds(p1, 1)
    THEN [kind |-> "Finished", frames |-> Append(state.frames, state.byte_list)]
    ELSE decode_error("InvalidBits")

\* a lone mark inside a frame: stop length + bit counter = byte length
decode_stop(state, p1) ==
    IF cycles_in_bounds(p1, 1) /\ state.bit_counter = 0
    THEN [kind |-> "Finished", frames |-> Append(state.frames, state.byte_list)]
    ELSE decode_error("InvalidBits")

\* the closure folded over the chunks by Aeha::decode
decode_step(step, p1, p2) ==
    IF step.kind # "Continue" THEN step
    ELSE IF step.end_of_frame THEN decode_leader(step, p1, p2)
    ELSE IF p2 # NoPulse THEN decode_pair(step, p1, p2)
    ELSE decode_stop(step, p1)

\* fold over chunks(2) of d, from the chunk that starts at index i
RECURSIVE decode_fold(_, _, _)
decode_fold(step, d, i) ==
    IF i > Len(d) THEN step
    ELSE decode_fold(decode_step(step, d[i], IF i + 1 <= Len(d) THEN d[i + 1] ELSE NoPulse),
                     d, i + 2)

\* Aeha::decode: the length checks, then the fold over the chunks after the
\* first one (.skip(1)), then the match on the final step
decode(d) ==
    IF Len(d) < 10 THEN [ok |-> FALSE, err |-> "TooShort"]
    ELSE IF Len(d) % 2 = 0 THEN [ok |-> FALSE, err |-> "EvenInputs"]
    ELSE LET r == decode_fold(decode_init, d, 3)
         IN  CASE r.kind = "Finished" -> [ok |-> TRUE, frames |-> r.frames]
               [] r.kind = "Error"    -> [ok |-> FALSE, err |-> r.err]
               [] OTHER               -> [ok |-> FALSE, err |-> "UnexpectedEnd"]

\* ------------------------------------------------------------------------
\* Codec specification: encode a frame list, then decode what was encoded
\* ------------------------------------------------------------------------
RECURSIVE SeqsUpTo(_, _)
SeqsUpTo(S, n) ==
    IF n = 0 THEN {<<>>}
    ELSE LET shorter == SeqsUpTo(S, n - 1)
         IN  shorter \cup {Append(q, x) : q \in shorter, x \in S}

FrameSamples == SeqsUpTo(ByteSamples, MaxBytes)
FrameLists   == SeqsUpTo(FrameSamples, MaxFrames)

CaptureIdle ==
    /\ started = "no" /\ task = "unspawned"
    /\ registered = FALSE /\ init = TRUE /\ gap = 0 /\ timer = "unspawned"
    /\ elapsed = 0 /\ chan = <<>> /\ last = <<>> /\ resume = <<>>
    /\ item = [kind |-> "None"] /\ sequence = <<>> /\ pulses = <<>>
    /\ watch = [version |-> 0, value |-> <<>>]
    /\ sub = "changed" /\ seen = 0 /\ got = <<>>
    /\ stop = FALSE /\ stopret = "idle" /\ edges = 0 /\ fires = 0
    /\ sent = <<>> /\ taken = 0 /\ outlog = <<>>

CodecIdle ==
    /\ frames_in = <<>> /\ enc = [ok |-> FALSE, err |-> "NotRun"] /\ data = <<>>
    /\ dec = [ok |-> FALSE, err |-> "NotRun"] /\ cph = "input"
    /\ dstep = decode_init /\ dpos = 3

SanyoIdle ==
    /\ powered = FALSE /\ mode = "Auto" /\ temp = 16
    /\ res = [op |-> "new", kind |-> "None"]
    /\ no_up = 16 /\ no_down = 30 /\ lastpow = "none"

OutIdle ==
    /\ ostarted = "no" /\ worker = "unspawned" /\ oqueue = <<>>
    /\ ostop = FALSE /\ alive = TRUE /\ jobs = <<>> /\ hw = <<>>
    /\ sends = 0 /\ late = 0 /\ oret = "none"

\* the clients of the gRPC server, one set_ac_status call each
Clients == {1, 2}

\* no call has been made
ServerIdle ==
    /\ reqs = [c \in Clients |->
                 [pc |-> "idle",
                  req |-> [powered |-> FALSE, mode |-> "Auto", temperature |-> 16],
                  powered_change |-> FALSE, ret |-> [kind |-> "None"]]]
    /\ sendlog = <<>>

InitCodec ==
    /\ frames_in \in FrameLists
    /\ enc = [ok |-> FALSE, err |-> "NotRun"] /\ data = <<>>
    /\ dec = [ok |-> FALSE, err |-> "NotRun"] /\ cph = "input"
    /\ dstep = decode_init /\ dpos = 3
    /\ rev = "peripherals" /\ CaptureIdle /\ SanyoIdle /\ OutIdle
    /\ ServerIdle

\* a caller runs Aeha::encode on the frames
DoEncode ==
    /\ cph = "input"
    /\ enc' = encode(frames_in)
    /\ cph' = "encoded"
    /\ UNCHANGED <<frames_in, data, dec, dstep, dpos, rev, captureVars, sanyoVars, outVars, serverVars>>

\* a caller runs Aeha::decode on the pulse sequence encode produced
DoDecode ==
    /\ cph = "encoded"
    /\ enc.ok
    /\ data' = enc.code
    /\ dec' = decode(enc.code)
    /\ cph' = "decoded"
    /\ UNCHANGED <<frames_in, enc, dstep, dpos, rev, captureVars, sanyoVars, outVars, serverVars>>

NextCodec == DoEncode \/ DoDecode

SpecCodec == InitCodec /\ [][NextCodec]_vars

\* C1: round trip. For a non-empty byte sequence b (encode takes a list of
\* frames, so b is handed over as the single frame <<b>>), decoding the pulse
\* sequence that encode produced succeeds and returns exactly b.
C1_RoundTrip ==
    (cph = "decoded" /\ Len(frames_in) = 1 /\ frames_in[1] # <<>>)
        => (dec.ok /\ dec.frames = frames_in)

\* ------------------------------------------------------------------------
\* Decode specification: Aeha::decode on raw pulse lists, chunk by chunk
\* ------------------------------------------------------------------------
\* payload bytes of the raw inputs: all-zero, and bits 0, 1 and 7 set
RawBytes == {0, 131}

RawFrames == SeqsUpTo(RawBytes, MaxBytes)

\* first pairs: a leader, a repeat pair, and a pair that is neither
LeaderPair == <<STD_CYCLE * 8, STD_CYCLE * 4>>
RepeatPair == <<STD_CYCLE * 8, STD_CYCLE * 8>>
FirstPairs == {LeaderPair, RepeatPair, <<STD_CYCLE, STD_CYCLE>>}

\* pairs after a gap: the first pairs, and pairs at the edges of the bands
\* of 8 cycles (2210, 4590) and 4 cycles (1105, 2295)
NextPairs ==
    FirstPairs \cup {<<2210, 1700>>, <<2211, 1106>>, <<4589, 2294>>, <<4590, 3400>>,
                     <<3400, 1105>>, <<3400, 2295>>, <<3400, 4589>>}

\* durations at the edges of the bands of 1 cycle (276.25, 573.75) and of
\* 3 cycles (828.75, 1721.25), and either side of WAIT_LENGTH / 2
PulseSamples == {276, 277, 573, 574, 828, 829, 1721, 1722, 5000, 5001}

\* spaces between two frames
GapSamples == {5001, WAIT_LENGTH}

\* a frame on the wire: first pair, 8 pairs per byte, stop mark
Wire(first, bytes) == first \o encode_bytes(bytes) \o <<STD_CYCLE>>

Replace(d, i, v) == [d EXCEPT ![i] = v]

OneFrameInputs == {Wire(f, b) : f \in FirstPairs, b \in RawFrames}

TwoFrameInputs ==
    {Wire(LeaderPair, b1) \o <<g>> \o Wire(f, b2) :
        b1 \in SeqsUpTo(RawBytes, 1), g \in GapSamples,
        f \in NextPairs, b2 \in SeqsUpTo(RawBytes, 1)}

\* the pulse lists handed to decode: one-frame lists with one duration
\* replaced, cut short, or cut short with the last duration replaced, and
\* two-frame lists, whole or cut short
RawInputs ==
    UNION {
        {Replace(b, i, v) : i \in 1..Len(b), v \in PulseSamples}
        \cup {SubSeq(b, 1, n) : n \in 0..Len(b)}
        \cup {Replace(SubSeq(b, 1, n), n, v) : n \in 1..Len(b), v \in PulseSamples}
        : b \in OneFrameInputs}
    \cup UNION {{SubSeq(b, 1, n) : n \in 0..Len(b)} : b \in TwoFrameInputs}

InitDecode ==
    /\ data \in RawInputs
    /\ frames_in = <<>> /\ enc = [ok |-> FALSE, err |-> "NotRun"]
    /\ dec = [ok |-> FALSE, err |-> "NotRun"] /\ cph = "raw"
    /\ dstep = decode_init /\ dpos = 3
    /\ rev = "legacy" /\ CaptureIdle /\ SanyoIdle /\ OutIdle
    /\ ServerIdle

\* the length checks with the parity tested first
DecodeCheck_even_first ==
    /\ cph = "raw"
    /\ IF Len(data) % 2 = 0
       THEN dec' = [ok |-> FALSE, err |-> "EvenInputs"] /\ cph' = "decoded"
       ELSE IF Len(data) < 10
       THEN dec' = [ok |-> FALSE, err |-> "TooShort"] /\ cph' = "decoded"
       ELSE cph' = "fold" /\ UNCHANGED dec
    /\ UNCHANGED <<frames_in, enc, data, dstep, dpos, rev, captureVars, sanyoVars, outVars, serverVars>>

\* Aeha::decode, the early returns: data.len() < 10, then data.len() % 2 == 0
DecodeCheck ==
    /\ cph = "raw"
    /\ IF Len(data) < 10
       THEN dec' = [ok |-> FALSE, err |-> "TooShort"] /\ cph' = "decoded"
       ELSE IF Len(data) % 2 = 0
       THEN dec' = [ok |-> FALSE, err |-> "EvenInputs"] /\ cph' = "decoded"
       ELSE cph' = "fold" /\ UNCHANGED dec
    /\ UNCHANGED <<frames_in, enc, data, dstep, dpos, rev, captureVars, sanyoVars, outVars, serverVars>>

\* the second pulse of the chunk at dpos: Some(p2) or None
chunk_second == IF dpos + 1 <= Len(data) THEN data[dpos + 1] ELSE NoPulse

\* the fold takes the next chunk; dpos starts after the first chunk (.skip(1))
DecodeChunk ==
    /\ cph = "fold" /\ dpos <= Len(data)
    /\ dstep' = decode_step(dstep, data[dpos], chunk_second)
    /\ dpos' = dpos + 2
    /\ UNCHANGED <<frames_in, enc, data, dec, cph, rev, captureVars, sanyoVars, outVars, serverVars>>

\* the chunks are used up: the match on the final step
DecodeFinish ==
    /\ cph = "fold" /\ dpos > Len(data)
    /\ dec' = CASE dstep.kind = "Finished" -> [ok |-> TRUE, frames |-> dstep.frames]
                 [] dstep.kind = "Error"    -> [ok |-> FALSE, err |-> dstep.err]
                 [] OTHER                   -> [ok |-> FALSE, err |-> "UnexpectedEnd"]
    /\ cph' = "decoded"
    /\ UNCHANGED <<frames_in, enc, data, dstep, dpos, rev, captureVars, sanyoVars, outVars, serverVars>>

NextDecode == DecodeCheck \/ DecodeChunk \/ DecodeFinish

SpecDecode == InitDecode /\ [][NextDecode]_vars

\* the chunk-by-chunk run ends with what the fold as a whole returns
DecodeAgrees == cph = "decoded" => dec = decode(data)

\* ------------------------------------------------------------------------
\* Pulse capture: IrIn
\* ------------------------------------------------------------------------
WaitTimeout == IF rev = "peripherals" THEN WAIT_TIMEOUT ELSE WAIT_TIMEOUT_LEGACY

\* the gaps between two edges the environment produces: bounce (40, 70), a
\* data pulse and a gap just above MAX_PULSE; an edge after a timer expiry
\* measures a gap of the order of the timeout
Gaps == {40, 70, 425, 10050}

Min(a, b) == IF a < b THEN a ELSE b

\* enum IrInterruptMessage
Pulse(d)   == [kind |-> "Pulse", d |-> d]
TimeoutMsg == [kind |-> "Timeout"]

\* rounding that always goes down
round_floor(i, fac) == i - (i % fac)

\* fn round, local to normalize
round(i, fac) ==
    LET rem == i % fac
    IN  IF rem >= fac \div 2 THEN i + (fac - rem) ELSE i - rem

\* IrIn::normalize
normalize(input) ==
    IF input.kind = "Pulse"
    THEN Pulse(IF input.d < 1000 THEN round(input.d, 10)
               ELSE IF input.d < 2000 THEN round(input.d, 50)
               ELSE round(input.d, 200))
    ELSE TimeoutMsg

\* debounce with the Timeout arm yielding the marker before the pending pulse
debounce_timeout_first(l, input) ==
    IF input.kind = "Timeout"
    THEN IF l # <<>>
         THEN [last |-> <<>>, yield |-> <<TimeoutMsg, Pulse(l[1])>>]
         ELSE [last |-> <<>>, yield |-> <<TimeoutMsg>>]
    ELSE IF l # <<>> /\ l[1] + input.d > DEBOUNCE
         THEN [last |-> <<>>, yield |-> <<Pulse(l[1] + input.d)>>]
    ELSE IF l # <<>>
         THEN [last |-> <<l[1] + input.d>>, yield |-> <<>>]
    ELSE IF input.d > DEBOUNCE
         THEN [last |-> <<>>, yield |-> <<Pulse(input.d)>>]
    ELSE [last |-> <<input.d>>, yield |-> <<>>]

\* debounce that emits the latest duration instead of the running sum
debounce_drops_pending(l, input) ==
    IF input.kind = "Timeout"
    THEN IF l # <<>>
         THEN [last |-> <<>>, yield |-> <<Pulse(l[1]), TimeoutMsg>>]
         ELSE [last |-> <<>>, yield |-> <<TimeoutMsg>>]
    ELSE IF l # <<>> /\ l[1] + input.d > DEBOUNCE
         THEN [last |-> <<>>, yield |-> <<Pulse(input.d)>>]
    ELSE IF l # <<>>
         THEN [last |-> <<l[1] + input.d>>, yield |-> <<>>]
    ELSE IF input.d > DEBOUNCE
         THEN [last |-> <<>>, yield |-> <<Pulse(input.d)>>]
    ELSE [last |-> <<input.d>>, yield |-> <<>>]

\* IrIn::debounce, one input message: the new `last` and the items yielded
\* while the generator handles it, in order.  (`last = None` of the Timeout
\* arm runs when the generator is resumed after its first yield; `last` is
\* private to the generator, so it is cleared here at once.)
debounce(l, input) ==
    IF input.kind = "Timeout"
    THEN IF l # <<>>
         THEN [last |-> <<>>, yield |-> <<Pulse(l[1]), TimeoutMsg>>]
         ELSE [last |-> <<>>, yield |-> <<TimeoutMsg>>]
    ELSE IF l # <<>> /\ l[1] + input.d > DEBOUNCE
         THEN [last |-> <<>>, yield |-> <<Pulse(l[1] + input.d)>>]
    ELSE IF l # <<>>
         THEN [last |-> <<l[1] + input.d>>, yield |-> <<>>]
    ELSE IF input.d > DEBOUNCE
         THEN [last |-> <<>>, yield |-> <<Pulse(input.d)>>]
    ELSE [last |-> <<input.d>>, yield |-> <<>>]

\* the Pulse arm without the MAX_PULSE test
on_pulse_nofilter(seq, duration) == Append(seq, duration)

\* the loop's arm for Some(Pulse(duration)): the new accumulator
on_pulse(seq, duration) ==
    IF duration > MAX_PULSE THEN seq ELSE Append(seq, duration)

\* the Timeout arm without sequence.clear()
on_timeout_noclear(seq, hist, w) ==
    IF seq # <<>>
    THEN [sequence |-> seq,
          pulses   |-> Append(hist, seq),
          watch    |-> [version |-> w.version + 1, value |-> <<seq>>]]
    ELSE [sequence |-> seq, pulses |-> hist, watch |-> w]

\* the Timeout arm without pulse_added_sender.send
on_timeout_nowatch(seq, hist, w) ==
    IF seq # <<>>
    THEN [sequence |-> <<>>, pulses |-> Append(hist, seq), watch |-> w]
    ELSE [sequence |-> seq, pulses |-> hist, watch |-> w]

\* the loop's arm for Some(Timeout): accumulator, history and watch value.
\* (pulses.write() fails only on a poisoned lock; the loop is the only writer
\* and pulses_mut has no caller, so that arm cannot be reached.)
on_timeout(seq, hist, w) ==
    IF seq # <<>>
    THEN [sequence |-> <<>>,
          pulses   |-> Append(hist, seq),
          watch    |-> [version |-> w.version + 1, value |-> <<seq>>]]
    ELSE [sequence |-> seq, pulses |-> hist, watch |-> w]

\* the interrupt closure's `if init { notify_one(); init = false }`; the
\* legacy revision never clears init
init_after_edge(i) == IF rev = "peripherals" THEN FALSE ELSE i

InitCapture ==
    /\ rev \in {"peripherals", "legacy"}
    /\ CaptureIdle /\ CodecIdle /\ SanyoIdle /\ OutIdle
    /\ ServerIdle

\* IrIn::start: the pin cannot be acquired, Err is returned
StartGpioFails ==
    /\ started = "no"
    /\ started' = "gpio_err"
    /\ UNCHANGED <<task, registered, init, gap, timer, elapsed, chan, last, resume,
                   item, sequence, pulses, watch, sub, seen, got, stop, stopret,
                   edges, fires, sent, taken, outlog>>
    /\ UNCHANGED <<codecVars, rev, sanyoVars, outVars, serverVars>>

\* IrIn::start: the pin is acquired, the read task is spawned, Ok(IrIn) is returned
StartOk ==
    /\ started = "no"
    /\ started' = "ok"
    /\ task' = "setup"
    /\ UNCHANGED <<registered, init, gap, timer, elapsed, chan, last, resume,
                   item, sequence, pulses, watch, sub, seen, got, stop, stopret,
                   edges, fires, sent, taken, outlog>>
    /\ UNCHANGED <<codecVars, rev, sanyoVars, outVars, serverVars>>

\* read task, start_ir_interrupt_handler succeeds: timer task spawned,
\* interrupt registered, the task enters its loop
TaskSetupOk ==
    /\ task = "setup"
    /\ timer' = "wait_start"
    /\ registered' = TRUE
    /\ gap' = 0
    /\ task' = "check"
    /\ UNCHANGED <<started, init, elapsed, chan, last, resume,
                   item, sequence, pulses, watch, sub, seen, got, stop, stopret,
                   edges, fires, sent, taken, outlog>>
    /\ UNCHANGED <<codecVars, rev, sanyoVars, outVars, serverVars>>

\* read task, set_async_interrupt fails: the error is logged and the task
\* returns; the timer task was spawned before and is left waiting
TaskSetupFails ==
    /\ task = "setup"
    /\ timer' = "wait_start"
    /\ task' = "reg_failed"
    /\ UNCHANGED <<started, registered, init, gap, elapsed, chan, last, resume,
                   item, sequence, pulses, watch, sub, seen, got, stop, stopret,
                   edges, fires, sent, taken, outlog>>
    /\ UNCHANGED <<codecVars, rev, sanyoVars, outVars, serverVars>>

\* the interrupt closure, called d microseconds after the previous event
Edge(d) ==
    /\ registered
    /\ edges < MaxEdges
    /\ timer = "sleeping" => elapsed + d < WaitTimeout
    /\ chan' = Append(chan, Pulse(gap + d))
    /\ sent' = Append(sent, Pulse(gap + d))
    /\ gap' = 0
    /\ edges' = edges + 1
    /\ IF init
       THEN timer' = "sleeping" /\ elapsed' = 0
       ELSE timer' = timer
            /\ elapsed' = IF timer = "sleeping" THEN elapsed + d ELSE elapsed
    /\ init' = init_after_edge(init)
    /\ UNCHANGED <<started, task, registered, last, resume,
                   item, sequence, pulses, watch, sub, seen, got, stop, stopret,
                   fires, taken, outlog>>
    /\ UNCHANGED <<codecVars, rev, sanyoVars, outVars, serverVars>>

\* timer task: sleep(WAIT_TIMEOUT) elapses with no notification
TimerFire ==
    /\ timer = "sleeping"
    /\ fires < MaxFires
    /\ fires' = fires + 1
    /\ chan' = Append(chan, TimeoutMsg)
    /\ sent' = Append(sent, TimeoutMsg)
    /\ gap' = Min(gap + (WaitTimeout - elapsed), WaitTimeout)
    /\ elapsed' = 0
    /\ UNCHANGED <<started, task, registered, init, timer, last, resume,
                   item, sequence, pulses, watch, sub, seen, got, stop, stopret,
                   edges, taken, outlog>>
    /\ UNCHANGED <<codecVars, rev, sanyoVars, outVars, serverVars>>

\* loop: `if *read_stop_receiver.borrow() { break }`, and after the loop
\* timeout_handle.abort() and ir.clear_async_interrupt()
LoopCheck ==
    /\ task = "check"
    /\ IF stop
       THEN task' = "done" /\ timer' = "aborted" /\ registered' = FALSE
       ELSE task' = "await" /\ UNCHANGED <<timer, registered>>
    /\ UNCHANGED <<started, init, gap, elapsed, chan, last, resume,
                   item, sequence, pulses, watch, sub, seen, got, stop, stopret,
                   edges, fires, sent, taken, outlog>>
    /\ UNCHANGED <<codecVars, rev, sanyoVars, outVars, serverVars>>

\* ir_pulse_stream.next(): the suspended generator is resumed and yields
StreamResume ==
    /\ task = "await"
    /\ resume # <<>>
    /\ item' = normalize(Head(resume))
    /\ outlog' = Append(outlog, Head(resume))
    /\ resume' = Tail(resume)
    /\ task' = "handle"
    /\ UNCHANGED <<started, registered, init, gap, timer, elapsed, chan, last,
                   sequence, pulses, watch, sub, seen, got, stop, stopret,
                   edges, fires, sent, taken>>
    /\ UNCHANGED <<codecVars, rev, sanyoVars, outVars, serverVars>>

\* ir_pulse_stream.next(): the generator takes one message off the channel;
\* it yields to the loop or goes on waiting for the next message
StreamPull ==
    /\ task = "await"
    /\ resume = <<>>
    /\ chan # <<>>
    /\ LET r == debounce(last, Head(chan))
       IN  /\ last' = r.last
           /\ IF r.yield = <<>>
              THEN UNCHANGED <<item, outlog, resume, task>>
              ELSE /\ item' = normalize(Head(r.yield))
                   /\ outlog' = Append(outlog, Head(r.yield))
                   /\ resume' = Tail(r.yield)
                   /\ task' = "handle"
    /\ chan' = Tail(chan)
    /\ taken' = taken + 1
    /\ UNCHANGED <<started, registered, init, gap, timer, elapsed,
                   sequence, pulses, watch, sub, seen, got, stop, stopret,
                   edges, fires, sent>>
    /\ UNCHANGED <<codecVars, rev, sanyoVars, outVars, serverVars>>

\* loop: the match on the item
LoopHandle ==
    /\ task = "handle"
    /\ IF item.kind = "Pulse"
       THEN /\ sequence' = on_pulse(sequence, item.d)
            /\ UNCHANGED <<pulses, watch>>
       ELSE LET r == on_timeout(sequence, pulses, watch)
            IN  sequence' = r.sequence /\ pulses' = r.pulses /\ watch' = r.watch
    /\ task' = "check"
    /\ UNCHANGED <<started, registered, init, gap, timer, elapsed, chan, last,
                   resume, item, sub, seen, got, stop, stopret,
                   edges, fires, sent, taken, outlog>>
    /\ UNCHANGED <<codecVars, rev, sanyoVars, outVars, serverVars>>

\* pulse_stream: receiver.changed() returns
SubChanged ==
    /\ started = "ok"
    /\ sub = "changed"
    /\ watch.version # seen
    /\ seen' = watch.version
    /\ sub' = "borrow"
    /\ UNCHANGED <<started, task, registered, init, gap, timer, elapsed, chan, last,
                   resume, item, sequence, pulses, watch, got, stop, stopret,
                   edges, fires, sent, taken, outlog>>
    /\ UNCHANGED <<codecVars, rev, sanyoVars, outVars, serverVars>>

\* pulse_stream: `yield receiver.borrow().clone()`
SubBorrow ==
    /\ sub = "borrow"
    /\ got' = Append(got, watch.value)
    /\ sub' = "changed"
    /\ UNCHANGED <<started, task, registered, init, gap, timer, elapsed, chan, last,
                   resume, item, sequence, pulses, watch, seen, stop, stopret,
                   edges, fires, sent, taken, outlog>>
    /\ UNCHANGED <<codecVars, rev, sanyoVars, outVars, serverVars>>

\* pulse_stream: changed() fails, the sender is gone with the read task
SubClosed ==
    /\ started = "ok"
    /\ sub = "changed"
    /\ watch.version = seen
    /\ task \in {"done", "reg_failed"}
    /\ sub' = "closed"
    /\ UNCHANGED <<started, task, registered, init, gap, timer, elapsed, chan, last,
                   resume, item, sequence, pulses, watch, seen, got, stop, stopret,
                   edges, fires, sent, taken, outlog>>
    /\ UNCHANGED <<codecVars, rev, sanyoVars, outVars, serverVars>>

\* IrIn::stop: read_stop_sender.send(true); it fails when the read task, which
\* owns the receiver, has already ended
StopCall ==
    /\ started = "ok"
    /\ stopret = "idle"
    /\ fires < MaxFires
    /\ IF task \in {"done", "reg_failed"}
       THEN stopret' = "err" /\ stop' = stop
       ELSE stopret' = "joining" /\ stop' = TRUE
    /\ UNCHANGED <<started, task, registered, init, gap, timer, elapsed, chan, last,
                   resume, item, sequence, pulses, watch, sub, seen, got,
                   edges, fires, sent, taken, outlog>>
    /\ UNCHANGED <<codecVars, rev, sanyoVars, outVars, serverVars>>

\* IrIn::stop: `(&mut self.read_handle).await` returns
StopJoin ==
    /\ stopret = "joining"
    /\ task \in {"done", "reg_failed"}
    /\ stopret' = "ok"
    /\ UNCHANGED <<started, task, registered, init, gap, timer, elapsed, chan, last,
                   resume, item, sequence, pulses, watch, sub, seen, got, stop,
                   edges, fires, sent, taken, outlog>>
    /\ UNCHANGED <<codecVars, rev, sanyoVars, outVars, serverVars>>

TaskNext == TaskSetupOk \/ TaskSetupFails \/ LoopCheck \/ StreamResume
            \/ StreamPull \/ LoopHandle

NextCapture ==
    \/ StartGpioFails
    \/ StartOk
    \/ TaskSetupOk
    \/ TaskSetupFails
    \/ \E d \in Gaps : Edge(d)
    \/ TimerFire
    \/ LoopCheck
    \/ StreamResume
    \/ StreamPull
    \/ LoopHandle
    \/ SubChanged
    \/ SubBorrow
    \/ SubClosed
    \/ StopCall
    \/ StopJoin

SpecCapture == InitCapture /\ [][NextCapture]_vars

\* ------------------------------------------------------------------------
\* Stream specification: debounce, normalize and the loop's arms on streams
\* of raw durations and Timeout markers that are already on the channel
\* ------------------------------------------------------------------------
\* raw durations: below and at the first rounding step (4, 5), bounce (40,
\* 70), just above DEBOUNCE with a tie (105), the last tick below 1000
\* (995), a tie and a non-tie of the 50 grid (1025, 1270), a tie of the 200
\* grid (2100) and a gap above MAX_PULSE (10050)
DurSamples == {4, 5, 40, 70, 105, 995, 1025, 1270, 2100, 10050}

MsgSamples == {Pulse(d) : d \in DurSamples} \cup {TimeoutMsg}

Streams == SeqsUpTo(MsgSamples, MaxMsgs)

\* the read task is in its loop with the stream on the channel; no edge and
\* no expiry is added
InitStream ==
    /\ rev \in {"peripherals", "legacy"}
    /\ chan \in Streams /\ sent = chan /\ taken = 0
    /\ started = "ok" /\ task = "check" /\ registered = TRUE
    /\ init = init_after_edge(TRUE) /\ gap = 0 /\ timer = "sleeping" /\ elapsed = 0
    /\ last = <<>> /\ resume = <<>>
    /\ item = [kind |-> "None"] /\ sequence = <<>> /\ pulses = <<>>
    /\ watch = [version |-> 0, value |-> <<>>]
    /\ sub = "changed" /\ seen = 0 /\ got = <<>>
    /\ stop = FALSE /\ stopret = "idle"
    /\ edges = MaxEdges /\ fires = MaxFires /\ outlog = <<>>
    /\ CodecIdle /\ SanyoIdle /\ OutIdle
    /\ ServerIdle

NextStream == LoopCheck \/ StreamResume \/ StreamPull \/ LoopHandle

SpecStream == InitStream /\ [][NextStream]_vars

\* ------------------------------------------------------------------------
\* Sanyo appliance target
\* ------------------------------------------------------------------------
\* IrTarget::SEQ_LENGTH of Sanyo
SEQ_LENGTH == 136

\* ladder ends: SanyoTemperatureCode::T16 and ::T30
T_MIN == 16
T_MAX == 30

Temperatures == T_MIN..T_MAX

\* enum ACMode (peripherals); the SanyoMode of the other revisions has Cool only
Modes == IF rev = "peripherals" THEN {"Auto", "Warm", "Dry", "Cool", "Fan"}
         ELSE {"Cool"}

default_mode == IF rev = "peripherals" THEN "Auto" ELSE "Cool"

\* up() that stays at the top of the ladder instead of returning None
up_saturating(t) == IF t = T_MAX THEN <<t>> ELSE <<t + 1>>

\* SanyoTemperatureCode::up / ::down, an Option
up(t)   == IF t = T_MAX THEN <<>> ELSE <<t + 1>>
down(t) == IF t = T_MIN THEN <<>> ELSE <<t - 1>>

\* SanyoTemperatureCode::ind
ind(t) == t - 16

\* BASE_SEQUENCE with bytes 5, 6, 8 and 16 set (indices from 0)
build_sequence(byte5, byte6, byte8, byte16) ==
    <<64, 0, 20, 128, 67, byte5, byte6, 64, byte8, 0, 104, 0, 0, 1, 0, 0, byte16>>

\* sanyo_sequence: the 17 payload bytes; the mode does not enter
sanyo_sequence(m, t, trigger) ==
    build_sequence(
        CASE trigger \in {"Down", "Up"} -> 132
          [] trigger = "Off" -> 133
          [] trigger = "On" -> 134,
        24 + ind(t) * 2,
        IF trigger = "Off" THEN 3 ELSE 35,
        (IF t \in 16..19 THEN 60 + ind(t) * 2
         ELSE IF t \in 28..30 THEN 54 + (ind(t) - 12) * 2
         ELSE 53 + (ind(t) - 4) * 2)
        + (CASE trigger \in {"Down", "Up"} -> 1
             [] trigger = "Off" -> 0
             [] trigger = "On" -> 3))

sanyo_err(op, e) == [op |-> op, kind |-> "Err", err |-> e]

\* Sanyo::as_ir_sequence of the table revision: the entry of
\* SANYO_TEMPERATURE_CODES for (mode, temp); its up and down sequences are
\* Options, on and off are always there. The pulses are data of the table;
\* the result names the entry.
table_sequence(op, m, t, trigger) ==
    IF (trigger = "Up" /\ t = no_up) \/ (trigger = "Down" /\ t = no_down)
    THEN sanyo_err(op, "TemperatureRange")
    ELSE [op |-> op, kind |-> "Ok", trigger |-> trigger,
          entry |-> [mode |-> m, temp |-> t]]

\* Sanyo::as_ir_sequence: the payload handed to Format::encode as one frame
as_ir_sequence(op, m, t, trigger) ==
    IF rev = "table" THEN table_sequence(op, m, t, trigger)
    ELSE LET e == encode(<<sanyo_sequence(m, t, trigger)>>)
         IN  IF e.ok
             THEN [op |-> op, kind |-> "Ok", trigger |-> trigger, seq |-> e.code]
             ELSE sanyo_err(op, "EncodeError")

\* a step that builds the sequence before the temperature is assigned
temp_step_stale(op, m, t, next, trigger) ==
    IF next = <<>>
    THEN [temp |-> t, res |-> sanyo_err(op, "TemperatureRange")]
    ELSE [temp |-> next[1], res |-> as_ir_sequence(op, m, t, trigger)]

\* Sanyo::temp_up / temp_down: `self.temp = self.temp.up().ok_or(..)?`, then
\* the sequence of the trigger; the new temperature and the result
temp_step(op, m, t, next, trigger) ==
    IF next = <<>>
    THEN [temp |-> t, res |-> sanyo_err(op, "TemperatureRange")]
    ELSE [temp |-> next[1], res |-> as_ir_sequence(op, m, next[1], trigger)]

\* temp_set without the Equal arm: the current temperature is sent again
temp_set_equal_sends(m, t, target) ==
    [temp |-> target,
     res |-> as_ir_sequence("temp_set", m, target,
                            IF t < target THEN "Down" ELSE "Up")]

\* Sanyo::temp_set: the trigger from self.temp.cmp(&temp); on Equal the
\* peripherals revision returns None, the other ones Err(TemperatureSame)
temp_set_result(m, t, target) ==
    IF t = target
    THEN [temp |-> t,
          res |-> IF rev = "peripherals"
                  THEN [op |-> "temp_set", kind |-> "None"]
                  ELSE sanyo_err("temp_set", "TemperatureSame")]
    ELSE [temp |-> target,
          res |-> as_ir_sequence("temp_set", m, target,
                                 IF t < target THEN "Down" ELSE "Up")]

\* the last successful power operation after a power operation with result r
power_record(r, now) == IF r.kind = "Ok" THEN now ELSE lastpow

InitSanyo ==
    /\ rev \in {"peripherals", "legacy", "table"}
    /\ powered = FALSE /\ mode = default_mode /\ temp = T_MIN
    /\ res = [op |-> "new", kind |-> "None"]
    /\ lastpow = "none"
    /\ IF rev = "table"
       THEN no_up \in Temperatures /\ no_down \in Temperatures
       ELSE no_up = T_MIN /\ no_down = T_MAX
    /\ OutIdle
    /\ CodecIdle /\ CaptureIdle
    /\ ServerIdle

\* Sanyo::power_off (only the peripherals revision records the power state)
power_off ==
    /\ powered' = IF rev = "peripherals" THEN FALSE ELSE powered
    /\ res' = as_ir_sequence("power_off", mode, temp, "Off")
    /\ lastpow' = power_record(res', "off")
    /\ UNCHANGED <<mode, temp, no_up, no_down, codecVars, rev, captureVars, outVars, serverVars>>

\* power_on that does not record the power state
power_on_norecord ==
    /\ res' = as_ir_sequence("power_on", mode, temp, "On")
    /\ lastpow' = power_record(res', "on")
    /\ UNCHANGED <<powered, mode, temp, no_up, no_down, codecVars, rev, captureVars, outVars, serverVars>>

\* Sanyo::power_on
power_on ==
    /\ powered' = IF rev = "peripherals" THEN TRUE ELSE powered
    /\ res' = as_ir_sequence("power_on", mode, temp, "On")
    /\ lastpow' = power_record(res', "on")
    /\ UNCHANGED <<mode, temp, no_up, no_down, codecVars, rev, captureVars, outVars, serverVars>>

\* Sanyo::temp_up
temp_up ==
    /\ LET r == temp_step("temp_up", mode, temp, up(temp), "Up")
       IN  temp' = r.temp /\ res' = r.res
    /\ UNCHANGED <<powered, mode, no_up, no_down, lastpow, codecVars, rev, captureVars, outVars, serverVars>>

\* Sanyo::temp_down
temp_down ==
    /\ LET r == temp_step("temp_down", mode, temp, down(temp), "Down")
       IN  temp' = r.temp /\ res' = r.res
    /\ UNCHANGED <<powered, mode, no_up, no_down, lastpow, codecVars, rev, captureVars, outVars, serverVars>>

\* Sanyo::temp_set
temp_set(target) ==
    /\ LET r == temp_set_result(mode, temp, target)
       IN  temp' = r.temp /\ res' = r.res
    /\ UNCHANGED <<powered, mode, no_up, no_down, lastpow, codecVars, rev, captureVars, outVars, serverVars>>

\* mode_set that sends the Off trigger
mode_set_off(m) ==
    /\ mode' = m
    /\ res' = as_ir_sequence("mode_set", m, temp, "Off")
    /\ UNCHANGED <<powered, temp, no_up, no_down, lastpow, codecVars, rev, captureVars, outVars, serverVars>>

\* Sanyo::mode_set
mode_set(m) ==
    /\ mode' = m
    /\ res' = as_ir_sequence("mode_set", m, temp, "On")
    /\ UNCHANGED <<powered, temp, no_up, no_down, lastpow, codecVars, rev, captureVars, outVars, serverVars>>

NextSanyo ==
    \/ power_off
    \/ power_on
    \/ temp_up
    \/ temp_down
    \/ \E target \in Temperatures : temp_set(target)
    \/ \E m \in Modes : mode_set(m)

SpecSanyo == InitSanyo /\ [][NextSanyo]_vars

\* ------------------------------------------------------------------------
\* Transmitter: IrOut
\* ------------------------------------------------------------------------
\* the sequences handed to send(): a mark below one carrier period at an even
\* index, marks that are and are not multiples of 26, spaces at odd indices
OutSamples == {<<60, 30, 25>>, <<26, 425>>}

\* PwmStep::Pulse(PwmPulse { period: 18us, pulse_width: 8us }) and PwmStep::Wait
PwmPulse == [step |-> "Pulse", period |-> 18, pulse_width |-> 8]
PwmWait(d) == [step |-> "Wait", duration |-> d]

\* iter::repeat(x).take(n)
RECURSIVE repeat_take(_, _)
repeat_take(x, n) == IF n = 0 THEN <<>> ELSE <<x>> \o repeat_take(x, n - 1)

\* the closure folded over seq.into_iter().enumerate(); i counts from 0
pwm_fold_wait_first(acc, i, pulse) ==
    IF i % 2 = 1
    THEN acc \o repeat_take(PwmPulse, pulse \div 26)
    ELSE Append(acc, PwmWait(pulse))

pwm_fold(acc, i, pulse) ==
    IF i % 2 = 0
    THEN acc \o repeat_take(PwmPulse, pulse \div 26)
    ELSE Append(acc, PwmWait(pulse))

RECURSIVE pwm_from(_, _, _)
pwm_from(acc, seq, i) ==
    IF i >= Len(seq) THEN acc
    ELSE pwm_from(pwm_fold(acc, i, seq[i + 1]), seq, i + 1)

\* pwm_sequence: the step list handed to set_pwm_sequence
pwm_sequence(seq) == pwm_from(<<>>, seq, 0)

InitOut ==
    /\ rev = "peripherals"
    /\ OutIdle /\ CodecIdle /\ CaptureIdle /\ SanyoIdle
    /\ ServerIdle

\* IrOut::start: Gpio::new() or get(pin) fails
OutStartGpioFails ==
    /\ ostarted = "no"
    /\ ostarted' = "gpio_err"
    /\ UNCHANGED <<worker, oqueue, ostop, alive, jobs, hw, sends, late, oret>>
    /\ UNCHANGED <<codecVars, rev, captureVars, sanyoVars, serverVars>>

\* IrOut::start: the worker is spawned and the IrOut returned
OutStartOk ==
    /\ ostarted = "no"
    /\ ostarted' = "ok" /\ worker' = "check"
    /\ UNCHANGED <<oqueue, ostop, alive, jobs, hw, sends, late, oret>>
    /\ UNCHANGED <<codecVars, rev, captureVars, sanyoVars, serverVars>>

\* IrOut::send: fails once the worker has dropped the receiver
OutSend(seq) ==
    /\ ostarted = "ok" /\ alive /\ sends < MaxSends
    /\ IF worker = "done"
       THEN oret' = "send_err" /\ UNCHANGED <<oqueue, sends>>
       ELSE /\ oqueue' = Append(oqueue, [id |-> sends + 1, seq |-> seq])
            /\ sends' = sends + 1
            /\ oret' = "send_ok"
    /\ UNCHANGED <<ostarted, worker, ostop, alive, jobs, hw, late>>
    /\ UNCHANGED <<codecVars, rev, captureVars, sanyoVars, serverVars>>

\* IrOut::stop: watch send fails once the worker has dropped the receiver
OutStop ==
    /\ ostarted = "ok" /\ alive /\ ~ostop /\ oret # "stop_err"
    /\ IF worker = "done"
       THEN oret' = "stop_err" /\ UNCHANGED ostop
       ELSE ostop' = TRUE /\ oret' = "stop_ok"
    /\ UNCHANGED <<ostarted, worker, oqueue, alive, jobs, hw, sends, late>>
    /\ UNCHANGED <<codecVars, rev, captureVars, sanyoVars, serverVars>>

\* the IrOut is dropped: both senders go away
OutDrop ==
    /\ ostarted = "ok" /\ alive
    /\ alive' = FALSE
    /\ UNCHANGED <<ostarted, worker, oqueue, ostop, jobs, hw, sends, late, oret>>
    /\ UNCHANGED <<codecVars, rev, captureVars, sanyoVars, serverVars>>

\* the top of the loop without the test of the stop flag
WorkerCheck_nostop ==
    /\ worker = "check"
    /\ worker' = "recv"
    /\ UNCHANGED <<ostarted, oqueue, ostop, alive, jobs, hw, sends, late, oret>>
    /\ UNCHANGED <<codecVars, rev, captureVars, sanyoVars, serverVars>>

\* worker loop: `if *send_stop_receiver.borrow() { break }`
WorkerCheck ==
    /\ worker = "check"
    /\ worker' = IF ostop THEN "done" ELSE "recv"
    /\ UNCHANGED <<ostarted, oqueue, ostop, alive, jobs, hw, sends, late, oret>>
    /\ UNCHANGED <<codecVars, rev, captureVars, sanyoVars, serverVars>>

\* polls that returned after stop was set (counted up to 2)
late_after == IF ostop THEN Min(late + 1, 2) ELSE late

\* recv_timeout returns Ok(seq): a job is spawned for the sequence
WorkerRecvOk ==
    /\ worker = "recv" /\ oqueue # <<>>
    /\ jobs' = Append(jobs, [id |-> Head(oqueue).id, seq |-> Head(oqueue).seq,
                             pc |-> "spawned"])
    /\ oqueue' = Tail(oqueue)
    /\ worker' = "check"
    /\ late' = late_after
    /\ UNCHANGED <<ostarted, ostop, alive, hw, sends, oret>>
    /\ UNCHANGED <<codecVars, rev, captureVars, sanyoVars, serverVars>>

\* recv_timeout returns Err(Timeout): nothing queued for WAIT_TIMEOUT
WorkerRecvTimeout ==
    /\ worker = "recv" /\ oqueue = <<>> /\ alive
    /\ worker' = "check"
    /\ late' = late_after
    /\ UNCHANGED <<ostarted, oqueue, ostop, alive, jobs, hw, sends, oret>>
    /\ UNCHANGED <<codecVars, rev, captureVars, sanyoVars, serverVars>>

\* recv_timeout returns Err(Disconnected): queue empty and the sender dropped
WorkerRecvDisconnected ==
    /\ worker = "recv" /\ oqueue = <<>> /\ ~alive
    /\ worker' = "done"
    /\ late' = late_after
    /\ UNCHANGED <<ostarted, oqueue, ostop, alive, jobs, hw, sends, oret>>
    /\ UNCHANGED <<codecVars, rev, captureVars, sanyoVars, serverVars>>

\* some job holds the lock of the output pin
out_locked == \E k \in 1..Len(jobs) : jobs[k].pc = "locked"

\* a spawned job gets out.lock(): any of the waiting jobs may get it
JobLock(k) ==
    /\ k \in 1..Len(jobs) /\ jobs[k].pc = "spawned"
    /\ ~out_locked
    /\ jobs' = [jobs EXCEPT ![k].pc = "locked"]
    /\ UNCHANGED <<ostarted, worker, oqueue, ostop, alive, hw, sends, late, oret>>
    /\ UNCHANGED <<codecVars, rev, captureVars, sanyoVars, serverVars>>

\* the job builds the step list, calls set_pwm_sequence(steps, false) and
\* releases the lock at the end of the closure
JobSubmit(k) ==
    /\ k \in 1..Len(jobs) /\ jobs[k].pc = "locked"
    /\ hw' = Append(hw, [id |-> jobs[k].id, steps |-> pwm_sequence(jobs[k].seq),
                         repeat |-> FALSE])
    /\ jobs' = [jobs EXCEPT ![k].pc = "done"]
    /\ UNCHANGED <<ostarted, worker, oqueue, ostop, alive, sends, late, oret>>
    /\ UNCHANGED <<codecVars, rev, captureVars, sanyoVars, serverVars>>

\* out.lock() returns Err (the mutex was poisoned by a holder that panicked):
\* error!("Could not get lock for ir output!") and the job ends
JobLockFails(k) ==
    /\ k \in 1..Len(jobs) /\ jobs[k].pc = "spawned"
    /\ ~out_locked
    /\ jobs' = [jobs EXCEPT ![k].pc = "lock_err"]
    /\ UNCHANGED <<ostarted, worker, oqueue, ostop, alive, hw, sends, late, oret>>
    /\ UNCHANGED <<codecVars, rev, captureVars, sanyoVars, serverVars>>

\* a failed submission that would take the worker loop down with it
JobSubmitFails_fatal(k) ==
    /\ k \in 1..Len(jobs) /\ jobs[k].pc = "locked"
    /\ jobs' = [jobs EXCEPT ![k].pc = "submit_err"]
    /\ worker' = "done"
    /\ UNCHANGED <<ostarted, oqueue, ostop, alive, hw, sends, late, oret>>
    /\ UNCHANGED <<codecVars, rev, captureVars, sanyoVars, serverVars>>

\* set_pwm_sequence returns Err(e): error!("Could not set up pwm for ir output: {:?}", e)
\* and the job ends, releasing the lock
JobSubmitFails(k) ==
    /\ k \in 1..Len(jobs) /\ jobs[k].pc = "locked"
    /\ jobs' = [jobs EXCEPT ![k].pc = "submit_err"]
    /\ UNCHANGED <<ostarted, worker, oqueue, ostop, alive, hw, sends, late, oret>>
    /\ UNCHANGED <<codecVars, rev, captureVars, sanyoVars, serverVars>>

WorkerNext ==
    \/ WorkerCheck
    \/ WorkerRecvOk
    \/ WorkerRecvTimeout
    \/ WorkerRecvDisconnected

NextOut ==
    \/ OutStartGpioFails
    \/ OutStartOk
    \/ \E seq \in OutSamples : OutSend(seq)
    \/ OutStop
    \/ OutDrop
    \/ WorkerNext
    \/ \E k \in 1..MaxSends : JobLock(k)
    \/ \E k \in 1..MaxSends : JobSubmit(k)
    \/ \E k \in 1..MaxSends : JobLockFails(k)
    \/ \E k \in 1..MaxSends : JobSubmitFails(k)

SpecOut == InitOut /\ [][NextOut]_vars

\* the blocking pool runs the worker loop; recv_timeout always returns
FairSpecOut == SpecOut /\ WF_vars(WorkerNext)

\* the blocking pool also runs every spawned job: it takes the lock, or fails
\* to, and makes its call
FairSpecJobs ==
    /\ FairSpecOut
    /\ \A k \in 1..MaxSends :
          WF_vars(JobLock(k) \/ JobLockFails(k) \/ JobSubmit(k) \/ JobSubmitFails(k))

\* ------------------------------------------------------------------------
\* gRPC server: HomeServer over IrOut<Sanyo>
\* ------------------------------------------------------------------------
\* the AcStatus messages a client sends; temperature is a u32, and 15 has no
\* SanyoTemperatureCode
Requests == [powered : BOOLEAN, mode : {"Auto", "Cool"},
             temperature : {15, 16, 17, 30}]

\* SanyoTemperatureCode::try_from(u32), an Option here
try_from(value) == IF value \in Temperatures THEN <<value>> ELSE <<>>

\* Sanyo::status
status == [powered |-> powered, mode |-> mode, temperature |-> temp]

\* the closure handed to send_target, run on the target (p, m, t): mode_set
\* assigns the mode, temp_set the temperature, each followed by `?`; then
\* the power operation if powered_change, else the sequence of temp_set.
\* rev selects the temp_set the server is built against: on Equal it yields
\* None (peripherals) or Err(TemperatureSame) (legacy), and `?` returns early.
\* power_on / power_off are the ones of the peripherals crate.
set_closure(p, m, t, req, powered_change) ==
    LET ms == as_ir_sequence("mode_set", req.mode, t, "On")
        ts == temp_set_result(req.mode, t, req.temperature)
        pw == IF req.powered
              THEN as_ir_sequence("power_on", req.mode, ts.temp, "On")
              ELSE as_ir_sequence("power_off", req.mode, ts.temp, "Off")
    IN  IF ms.kind # "Ok"
        THEN [powered |-> p, mode |-> req.mode, temp |-> t, res |-> ms,
              pow |-> "none"]
        ELSE IF ts.res.kind # "Ok"
        THEN [powered |-> p, mode |-> req.mode, temp |-> ts.temp,
              res |-> ts.res, pow |-> "none"]
        ELSE IF powered_change
        THEN [powered |-> req.powered, mode |-> req.mode, temp |-> ts.temp,
              res |-> pw,
              pow |-> IF pw.kind # "Ok" THEN "none"
                      ELSE IF req.powered THEN "on" ELSE "off"]
        ELSE [powered |-> p, mode |-> req.mode, temp |-> ts.temp,
              res |-> ts.res, pow |-> "none"]

\* the AcState options the server is started with (mode defaults to cool,
\* temperature to 25)
InitialStates == [unpowered : BOOLEAN, mode : {"Cool"}, temperature : {16, 25}]

\* Opt::Server: IrOut::default_pin(Sanyo::default()), then
\* send_target(initial_state.send): mode_set, temp_set, power_off or power_on;
\* the IrOut is started, its worker at the top of the loop, and the power
\* sequence of the initial state is queued
InitServer ==
    /\ rev \in {"peripherals", "legacy"}
    /\ \E s \in InitialStates :
          /\ powered = ~s.unpowered /\ mode = s.mode /\ temp = s.temperature
          /\ res = IF s.unpowered
                   THEN as_ir_sequence("power_off", s.mode, s.temperature, "Off")
                   ELSE as_ir_sequence("power_on", s.mode, s.temperature, "On")
          /\ lastpow = IF s.unpowered THEN "off" ELSE "on"
    /\ no_up = 16 /\ no_down = 30
    /\ ostarted = "ok" /\ worker = "check"
    /\ oqueue = <<[id |-> 1, seq |-> res.seq]>>
    /\ ostop = FALSE /\ alive = TRUE /\ jobs = <<>> /\ hw = <<>>
    /\ sends = 1 /\ late = 0 /\ oret = "send_ok"
    /\ CodecIdle /\ CaptureIdle /\ ServerIdle

\* set_ac_status up to its first `?`: powered_change from the status read
\* under the lock, which is released again; then the temperature conversion
SetRead(c, req) ==
    /\ reqs[c].pc = "idle"
    /\ reqs' = [reqs EXCEPT ![c] =
          [pc |-> IF try_from(req.temperature) = <<>> THEN "done" ELSE "read",
           req |-> req,
           powered_change |-> (status.powered # req.powered),
           ret |-> IF try_from(req.temperature) = <<>>
                   THEN [kind |-> "InvalidArgument"] ELSE [kind |-> "None"]]]
    /\ UNCHANGED <<sendlog, codecVars, rev, captureVars, sanyoVars, outVars>>

\* set_ac_status: the lock is taken again and send_target runs the closure on
\* self.target; an Err returns at once, an Ok sequence goes to IrOut::send
SetSend(c) ==
    /\ reqs[c].pc = "read"
    /\ LET r == set_closure(powered, mode, temp, reqs[c].req,
                            reqs[c].powered_change)
           sent_ok == r.res.kind = "Ok" /\ worker # "done"
       IN  /\ powered' = r.powered /\ mode' = r.mode /\ temp' = r.temp
           /\ res' = r.res
           /\ lastpow' = IF r.pow = "none" THEN lastpow ELSE r.pow
           /\ IF sent_ok
              THEN /\ oqueue' = Append(oqueue, [id |-> sends + 1, seq |-> r.res.seq])
                   /\ sends' = sends + 1
                   /\ oret' = "send_ok"
                   /\ sendlog' = Append(sendlog, c)
                   /\ reqs' = [reqs EXCEPT ![c].pc = "sent"]
              ELSE /\ oret' = IF r.res.kind = "Ok" THEN "send_err" ELSE oret
                   /\ reqs' = [reqs EXCEPT ![c].pc = "done",
                                           ![c].ret = [kind |-> "Internal"]]
                   /\ UNCHANGED <<oqueue, sends, sendlog>>
    /\ UNCHANGED <<ostarted, worker, ostop, alive, jobs, hw, late>>
    /\ UNCHANGED <<no_up, no_down, codecVars, rev, captureVars>>

\* set_ac_status: the response is the status read under a third lock
SetReply(c) ==
    /\ reqs[c].pc = "sent"
    /\ reqs' = [reqs EXCEPT ![c].pc = "done",
                            ![c].ret = [kind |-> "Ok", status |-> status]]
    /\ UNCHANGED <<sendlog, codecVars, rev, captureVars, sanyoVars, outVars>>

NextServer ==
    \/ \E c \in Clients, req \in Requests : SetRead(c, req)
    \/ \E c \in Clients : SetSend(c)
    \/ \E c \in Clients : SetReply(c)

SpecServer == InitServer /\ [][NextServer]_vars

\* ------------------------------------------------------------------------
\* Fairness: the runtime runs a task that can make progress, a sleep that
\* has elapsed wakes the timer task, and a finished task wakes its joiner.
\* Edges, stop requests and the subscriber are left to the environment.
\* ------------------------------------------------------------------------
FairSpecCapture ==
    SpecCapture /\ WF_vars(TaskNext) /\ WF_vars(TimerFire) /\ WF_vars(StopJoin)

\* ------------------------------------------------------------------------
\* History helpers
\* ------------------------------------------------------------------------
RECURSIVE PulseSum(_)
PulseSum(log) ==
    IF log = <<>> THEN 0
    ELSE (IF Head(log).kind = "Pulse" THEN Head(log).d ELSE 0) + PulseSum(Tail(log))

RECURSIVE Timeouts(_)
Timeouts(log) ==
    IF log = <<>> THEN 0
    ELSE (IF Head(log).kind = "Timeout" THEN 1 ELSE 0) + Timeouts(Tail(log))

Prefix(log, n) == SubSeq(log, 1, n)

\* index of the k-th Timeout marker of log
NthTimeout(log, k) ==
    CHOOSE i \in 1..Len(log) :
        log[i].kind = "Timeout" /\ Timeouts(Prefix(log, i)) = k

\* the items at the end of log that follow its last Timeout marker
RECURSIVE LastSegment(_)
LastSegment(log) ==
    IF log = <<>> \/ log[Len(log)].kind = "Timeout" THEN <<>>
    ELSE Append(LastSegment(Prefix(log, Len(log) - 1)), log[Len(log)])

\* the durations of the pulses of seg, normalized, without those above MAX_PULSE
RECURSIVE Accepted(_)
Accepted(seg) ==
    IF seg = <<>> THEN <<>>
    ELSE LET d == normalize(Head(seg)).d
         IN  (IF d > MAX_PULSE THEN <<>> ELSE <<d>>) \o Accepted(Tail(seg))

IsPrefix(a, b) == Len(a) <= Len(b) /\ Prefix(b, Len(a)) = a

\* the loop handles `item` in this step
Handles(kind) == task = "handle" /\ task' = "check" /\ item.kind = kind

\* ------------------------------------------------------------------------
\* Properties
\* ------------------------------------------------------------------------
\* C2: timeout segmentation. When the loop handles a Timeout marker and
\* pulses were accepted since the previous marker, exactly one sequence is
\* appended to the history and broadcast; it is the list of the pulses
\* debounce yielded since the previous marker (normalized, those above
\* MAX_PULSE left out), in order; the accumulator is empty afterwards. A
\* marker that finds the accumulator empty publishes nothing. From the first
\* edge on the timer is running, so a marker is due at most WAIT_TIMEOUT
\* after any edge.
C2_TimeoutSegmentation ==
    /\ []((registered /\ edges > 0) => timer = "sleeping")
    /\ [][Handles("Timeout") =>
          LET acc == Accepted(LastSegment(Prefix(outlog, Len(outlog) - 1)))
          IN  /\ sequence = acc
              /\ sequence' = <<>>
              /\ IF acc # <<>>
                 THEN /\ pulses' = Append(pulses, acc)
                      /\ watch'.value = <<acc>>
                      /\ watch'.version = watch.version + 1
                 ELSE pulses' = pulses /\ watch' = watch]_vars

\* C2 witness: two markers were handled; the first published a sequence of
\* two pulses, the second found the accumulator empty.
C2_Witness ==
    /\ task = "check" /\ fires = 2 /\ taken = Len(sent) /\ resume = <<>>
    /\ Timeouts(outlog) = 2
    /\ Len(pulses) = 1 /\ Len(pulses[1]) = 2 /\ sequence = <<>>

\* C3: timer reset. Every edge interrupt restarts the timeout timer, and a
\* Timeout marker is enqueued only when no edge occurred during the
\* WAIT_TIMEOUT before it (the time since the last edge is at least
\* WAIT_TIMEOUT when the marker is enqueued).
C3_TimerReset ==
    [][/\ edges' = edges + 1 => (timer' = "sleeping" /\ elapsed' = 0)
       /\ fires' = fires + 1 => gap' >= WaitTimeout]_vars

\* C4: ordering. The channel holds the messages not yet taken, in the order
\* they were enqueued; and every raw duration enqueued before a Timeout
\* marker has reached the loop, inside some pulse, before that marker: at each
\* marker debounce yielded, the durations yielded so far add up to the
\* durations enqueued before that marker.
C4_Ordering ==
    /\ chan = SubSeq(sent, taken + 1, Len(sent))
    /\ \A i \in 1..Len(outlog) :
          outlog[i].kind = "Timeout" =>
            LET k == Timeouts(Prefix(outlog, i))
            IN  /\ k <= Timeouts(Prefix(sent, taken))
                /\ PulseSum(Prefix(outlog, i)) = PulseSum(Prefix(sent, NthTimeout(sent, k)))

\* C4 witness: a pending 40us duration was followed by a Timeout marker; it
\* was yielded before the marker and published by it.
C4_Witness ==
    /\ sent = <<Pulse(40), TimeoutMsg>>
    /\ outlog = <<Pulse(40), TimeoutMsg>>
    /\ pulses = << <<40>> >>

\* C5: debounce. When debounce takes a raw duration d, the running sum is d
\* plus the pending duration, if any; if the sum exceeds DEBOUNCE one pulse
\* equal to the sum is emitted and nothing stays pending, otherwise nothing is
\* emitted and the sum stays pending.
C5_Debounce ==
    [][(taken' = taken + 1 /\ Head(chan).kind = "Pulse") =>
        LET sum == (IF last = <<>> THEN 0 ELSE last[1]) + Head(chan).d
        IN  IF sum > DEBOUNCE
            THEN outlog' = Append(outlog, Pulse(sum)) /\ last' = <<>>
            ELSE outlog' = outlog /\ last' = <<sum>>]_vars

\* C5 witness: raw 40us then 70us gave exactly one pulse of 110us.
C5_Witness ==
    /\ taken = 2 /\ Prefix(sent, 2) = <<Pulse(40), Pulse(70)>>
    /\ outlog = <<Pulse(110)>> /\ last = <<>>
    /\ item = Pulse(110)

\* C6 as the specification states it: a measured duration above MAX_PULSE (one raw duration that
\* debounce passed on unchanged) is never appended to the accumulator.
C6_MeasuredAboveMaxSkipped ==
    [][(/\ Handles("Pulse")
        /\ outlog[Len(outlog)] = sent[taken]
        /\ sent[taken].d > MAX_PULSE) => sequence' = sequence]_vars

\* C6 as amended: a pulse whose debounced and normalized duration exceeds
\* MAX_PULSE is skipped: nothing is appended, nothing is published, the
\* accumulator is kept and the loop goes on; every other pulse is appended;
\* no pulse of the accumulator or of a published sequence exceeds MAX_PULSE.
C6_MaxPulseFilter ==
    /\ [](/\ \A i \in 1..Len(sequence) : sequence[i] <= MAX_PULSE
          /\ \A j \in 1..Len(pulses) :
                \A i \in 1..Len(pulses[j]) : pulses[j][i] <= MAX_PULSE)
    /\ [][Handles("Pulse") =>
            /\ pulses' = pulses /\ watch' = watch
            /\ IF item.d > MAX_PULSE
               THEN sequence' = sequence
               ELSE sequence' = Append(sequence, item.d)]_vars

\* C6 witness: 425us was accepted, then 70us + 10050us (normalized to
\* 10200us) was skipped; the accumulator still holds the first pulse.
C6_Witness ==
    /\ task = "check"
    /\ outlog = <<Pulse(425), Pulse(10120)>>
    /\ item = Pulse(10200)
    /\ sequence = <<430>> /\ pulses = <<>>

\* C7: shutdown. Once stop() has set the stop signal the loop eventually
\* exits and stop() returns; and when the loop has exited the timer task is
\* aborted and the interrupt callback deregistered.
C7_Shutdown ==
    /\ [](task = "done" => (timer = "aborted" /\ ~registered))
    /\ (stop ~> (task \in {"done", "reg_failed"} /\ stopret = "ok"))

\* C8: publication. The history only grows, by one sequence at a time; the
\* broadcast value is always the last history entry (None while the history
\* is empty); and whatever the subscriber is yielded is the newest sequence.
C8_Publication ==
    [][/\ IsPrefix(pulses, pulses')
       /\ Len(pulses') <= Len(pulses) + 1
       /\ Len(pulses') = Len(pulses) + 1 => pulses' = Append(pulses, sequence)
       /\ watch'.version = Len(pulses')
       /\ watch'.value = IF pulses' = <<>> THEN <<>> ELSE <<pulses'[Len(pulses')]>>
       /\ got' # got => got' = Append(got, <<pulses[Len(pulses)]>>)]_vars

\* C8 witness: two different sequences were published; the subscriber was
\* yielded only the second one, the history holds both.
C8_Witness ==
    /\ Len(pulses) = 2 /\ pulses[1] # pulses[2]
    /\ got = << <<pulses[2]>> >>
    /\ watch.value = <<pulses[2]>>

\* C9: when registering the interrupt callback fails, IrIn::start has not
\* handed out an IrIn.
C9_RegistrationFatal == task = "reg_failed" => started # "ok"

\* C10: temp_up at the ladder maximum and temp_down at the minimum fail with
\* TemperatureRange and leave powered, mode and temperature unchanged.
C10_TemperatureBoundary ==
    [][(\/ res'.op = "temp_up" /\ temp = T_MAX
        \/ res'.op = "temp_down" /\ temp = T_MIN) =>
            /\ res'.kind = "Err" /\ res'.err = "TemperatureRange"
            /\ powered' = powered /\ mode' = mode /\ temp' = temp]_vars

\* C10 witness: temp_up was refused at 30 degrees in a powered, non-default state.
C10_Witness ==
    /\ res = [op |-> "temp_up", kind |-> "Err", err |-> "TemperatureRange"]
    /\ temp = T_MAX /\ powered /\ mode = "Cool"

\* C11: no partial update. An operation on the Sanyo target that returns an
\* error leaves powered, mode and temperature as they were before the call.
C11_NoPartialUpdate ==
    [][res'.kind = "Err" =>
        (powered' = powered /\ mode' = mode /\ temp' = temp)]_vars

\* C12: uniqueness and length. A sequence produced for a trigger at a ladder
\* position has exactly SEQ_LENGTH pulses and differs from the sequence of
\* the same trigger at every other ladder position.
C12_UniqueFixedLength ==
    (rev # "table" /\ res.kind = "Ok") =>
        /\ Len(res.seq) = SEQ_LENGTH
        /\ \A t \in Temperatures \ {temp} :
              as_ir_sequence(res.op, mode, t, res.trigger).seq # res.seq

\* C13: temp_set direction. temp_set(target) with a target other than the
\* current temperature uses the Down trigger when the target is lower and the
\* Up trigger when it is higher, and sets the temperature to the target.
C13_TempSetDirection ==
    [][\A target \in Temperatures :
        (target # temp /\ temp_set(target)) =>
            /\ res'.kind = "Ok"
            /\ res'.trigger = (IF target < temp THEN "Down" ELSE "Up")
            /\ temp' = target]_vars

\* C14: temp_set at the current temperature produces no pulse sequence (None
\* in the peripherals revision, the TemperatureSame error in the others) and
\* leaves powered, mode and temperature unchanged.
C14_TempSetSame ==
    [][temp_set(temp) =>
        /\ res' = IF rev = "peripherals"
                  THEN [op |-> "temp_set", kind |-> "None"]
                  ELSE [op |-> "temp_set", kind |-> "Err", err |-> "TemperatureSame"]
        /\ powered' = powered /\ mode' = mode /\ temp' = temp]_vars

\* C14 witness: temp_set(20) at 20 degrees in a powered state.
C14_Witness ==
    /\ res.op = "temp_set"
    /\ res.kind = "None" \/ (res.kind = "Err" /\ res.err = "TemperatureSame")
    /\ temp = 20 /\ lastpow = "on"

\* C15: mode_set(m) sets the mode to m, leaves powered and temperature
\* unchanged and returns the sequence of the On trigger for the current
\* temperature, the same for every mode, powered or not.
C15_ModeSet ==
    [][\A m \in Modes :
        mode_set(m) =>
            /\ mode' = m /\ powered' = powered /\ temp' = temp
            /\ res'.kind = "Ok" /\ res'.trigger = "On"
            /\ \A m2 \in Modes : res' = as_ir_sequence("mode_set", m2, temp, "On")
            /\ rev # "table" =>
                 res'.seq = encode(<<build_sequence(134, 24 + 2 * (temp - 16), 35,
                                     sanyo_sequence(m, temp, "Off")[17] + 3)>>).code]_vars

\* C15 witness: mode_set(Dry) in an unpowered state at 18 degrees after
\* another mode had been set.
C15_Witness ==
    /\ res.op = "mode_set" /\ res.kind = "Ok" /\ mode = "Dry"
    /\ ~powered /\ temp = 18

\* C16: appliance state space of the peripherals revision. A new Sanyo is
\* unpowered, in the default mode, at 16 degrees; the temperature stays on
\* the ladder 16..30; every reachable state has a twin with the same powered,
\* mode and temperature whose last call produced no sequence (temp_set at the
\* current temperature); and in every such state each of powered, mode and
\* temperature can be given any of its values by one operation (power_on,
\* power_off, mode_set, temp_set; temp_up and temp_down move one position)
\* that leaves the other two alone. So every state of the product is
\* reachable.
C16_StateSpace ==
    /\ temp \in T_MIN..T_MAX
    /\ rev = "peripherals" =>
        /\ res.op = "new" => (~powered /\ mode = "Auto" /\ temp = 16)
        /\ mode \in {"Auto", "Warm", "Dry", "Cool", "Fan"}
        /\ ENABLED (/\ temp_set(temp) /\ res'.kind = "None"
                    /\ powered' = powered /\ mode' = mode /\ temp' = temp)
        /\ res.kind = "None" =>
            /\ ENABLED (power_on /\ powered' /\ mode' = mode /\ temp' = temp)
            /\ ENABLED (power_off /\ ~powered' /\ mode' = mode /\ temp' = temp)
            /\ \A m \in {"Auto", "Warm", "Dry", "Cool", "Fan"} :
                  ENABLED (/\ mode_set(m)
                           /\ powered' = powered /\ mode' = m /\ temp' = temp)
            /\ \A t \in T_MIN..T_MAX :
                  ENABLED (/\ temp_set(t)
                           /\ powered' = powered /\ mode' = mode /\ temp' = t)
            /\ temp < T_MAX =>
                  ENABLED (/\ temp_up
                           /\ powered' = powered /\ mode' = mode /\ temp' = temp + 1)
            /\ temp > T_MIN =>
                  ENABLED (/\ temp_down
                           /\ powered' = powered /\ mode' = mode /\ temp' = temp - 1)

\* C16 witness: the corner of the product farthest from the initial state.
C16_Witness ==
    /\ rev = "peripherals" /\ powered /\ mode = "Fan" /\ temp = T_MAX
    /\ res.kind = "None"

\* C17: power tracking. powered is true exactly when the last successful
\* power operation was power_on; temp_up, temp_down, temp_set and mode_set
\* never change powered.
C17_PowerTracking ==
    /\ [](powered <=> lastpow = "on")
    /\ [][(\/ temp_up \/ temp_down
           \/ \E t \in Temperatures : temp_set(t)
           \/ \E m \in Modes : mode_set(m)) => powered' = powered]_vars

\* the sequence send() enqueued as number id
SentSeq(id) ==
    LET k == CHOOSE n \in 1..Len(jobs) : jobs[n].id = id
    IN  jobs[k].seq

\* n carrier bursts
Bursts(n) == [j \in 1..n |-> [step |-> "Pulse", period |-> 18, pulse_width |-> 8]]

\* the sequences of a list, joined
RECURSIVE Flatten(_)
Flatten(ss) == IF ss = <<>> THEN <<>> ELSE Head(ss) \o Flatten(Tail(ss))

\* C18: transmitter serialization. At most one job holds the output pin at
\* any time, and the sequences reach set_pwm_sequence in the order in which
\* send() enqueued them.
C18_Serialization ==
    /\ Cardinality({k \in 1..Len(jobs) : jobs[k].pc = "locked"}) <= 1
    /\ \A i, j \in 1..Len(hw) : i < j => hw[i].id < hw[j].id

\* C19: carrier expansion. Every call of set_pwm_sequence is non-repeating
\* and its step list is, for the sequence p it was made for, in order:
\* floor(p[i] / 26) carrier bursts (period 18, 8 active) for each even index
\* i (from 0) and one wait of p[i] for each odd index; each sequence is
\* submitted in one call.
C19_CarrierExpansion ==
    /\ \A i \in 1..Len(hw) :
          LET p == SentSeq(hw[i].id)
          IN  /\ hw[i].repeat = FALSE
              /\ hw[i].steps =
                    Flatten([n \in 1..Len(p) |->
                               IF (n - 1) % 2 = 0
                               THEN Bursts(p[n] \div 26)
                               ELSE <<[step |-> "Wait", duration |-> p[n]]>>])
    /\ \A i, j \in 1..Len(hw) : i # j => hw[i].id # hw[j].id

\* C19 witness: <<60, 30, 25>> was submitted as two bursts and a wait of 30
\* (25 is below one burst), after another sequence.
C19_Witness ==
    /\ Len(hw) = 2
    /\ hw[2].steps = <<[step |-> "Pulse", period |-> 18, pulse_width |-> 8],
                       [step |-> "Pulse", period |-> 18, pulse_width |-> 8],
                       [step |-> "Wait", duration |-> 30]>>

\* C20: transmitter shutdown. After stop() has set the stop flag the worker
\* loop makes at most one more poll of the queue and then exits, whether or
\* not sequences are queued and whether or not the sender is still alive.
C20_BoundedShutdown ==
    /\ [](late <= 1)
    /\ [][(ostop /\ worker = "check") => worker' = "done"]_worker
    /\ (ostop ~> worker = "done")

\* C20 witness: the worker exited after one more poll with a sequence still
\* queued and the sender alive.
C20_Witness ==
    ostop /\ worker = "done" /\ late = 1 /\ oqueue # <<>> /\ alive

\* some job has logged a failure (lock or submission)
job_failed == \E k \in 1..Len(jobs) : jobs[k].pc \in {"lock_err", "submit_err"}

\* C21: transmitter failure handling. A failed submission or a failed lock
\* is only logged: the step in which a job fails leaves the worker loop where
\* it was; the loop ends only from the test of the stop flag with the flag
\* set or from a poll that found the queue disconnected; and a sequence that
\* is queued after a failure is still received by the worker unless stop is
\* requested.
C21_FailureHandling ==
    /\ [][(\E k \in 1..Len(jobs) :
              /\ jobs[k].pc \in {"spawned", "locked"}
              /\ jobs'[k].pc \in {"lock_err", "submit_err"}) => worker' = worker]_vars
    /\ [][(worker # "done" /\ worker' = "done")
            => \/ worker = "check" /\ ostop
               \/ worker = "recv" /\ oqueue = <<>> /\ ~alive]_vars
    /\ \A id \in 1..MaxSends :
          (job_failed /\ \E q \in 1..Len(oqueue) : oqueue[q].id = id)
              ~> (ostop \/ \E k \in 1..Len(jobs) : jobs[k].id = id)

\* C21 witness: the first sequence failed at the lock, the loop went on and
\* the second sequence was submitted, without a stop request.
C21_Witness ==
    /\ Len(jobs) = 2 /\ jobs[1].pc = "lock_err" /\ jobs[2].pc = "done"
    /\ Len(hw) = 1 /\ hw[1].id = 2
    /\ ~ostop /\ worker # "done"

\* ------------------------------------------------------------------------
\* Properties of Aeha::decode and Aeha::encode
\* ------------------------------------------------------------------------
\* the fold is inside a frame and has a (mark, space) chunk in front of it
DataPair ==
    /\ cph = "fold" /\ dpos + 1 <= Len(data)
    /\ dstep.kind = "Continue" /\ ~dstep.end_of_frame

\* the fold is inside a frame and has a lone mark in front of it
LoneMark ==
    /\ cph = "fold" /\ dpos = Len(data)
    /\ dstep.kind = "Continue" /\ ~dstep.end_of_frame

\* d is strictly between 65% and 135% of k cycles of 425
Within(d, k) == 65 * 425 * k < 100 * d /\ 100 * d < 135 * 425 * k

\* C22: decode rejects every input shorter than 10 pulses with TooShort
\* before anything else is looked at (no chunk is folded), and never returns
\* TooShort for an input of 10 or more pulses.
C22_TooShort ==
    cph = "decoded" =>
        /\ Len(data) < 10 => (~dec.ok /\ dec.err = "TooShort" /\ dpos = 3)
        /\ Len(data) >= 10 => (dec.ok \/ dec.err # "TooShort")

\* C22 witness: the first 8 pulses of a well-formed frame, an even number,
\* were rejected as too short
C22_Witness ==
    /\ cph = "decoded" /\ ~dec.ok /\ dec.err = "TooShort"
    /\ data = SubSeq(Wire(LeaderPair, <<0>>), 1, 8)

\* C23: leader check. decode succeeds only if the first (mark, space) pair
\* satisfies verify_leader (8 cycles, 4 cycles) or verify_repeat (8, 8).
C23_LeaderCheck ==
    (cph = "decoded" /\ dec.ok)
        => (verify_leader(data[1], data[2]) \/ verify_repeat(data[1], data[2]))

\* the bit a space inside the band of 3 cycles stands for
SpaceBit(d) == IF Within(d, 3) THEN 1 ELSE 0

\* byte j of a one-frame pulse list, read off the spaces of its 8 pairs
ByteAt(d, j) ==
    LET sp(k) == d[4 + 16 * (j - 1) + 2 * k]
    IN  SpaceBit(sp(0)) + 2 * SpaceBit(sp(1)) + 4 * SpaceBit(sp(2))
        + 8 * SpaceBit(sp(3)) + 16 * SpaceBit(sp(4)) + 32 * SpaceBit(sp(5))
        + 64 * SpaceBit(sp(6)) + 128 * SpaceBit(sp(7))

\* C24: bit decoding. Inside a frame a pair with a mark of about 1 cycle
\* and a space of about 1 cycle is bit 0 and with a space of about 3 cycles
\* bit 1; the k-th bit of each group of 8 lands at bit position k (least
\* significant first) and every 8 bits append one byte. A successful decode
\* returns the bytes so read; leader, eight 0-bit pairs and the stop mark
\* decode to the single byte 0x00.
C24_BitDecoding ==
    /\ [][(DecodeChunk /\ DataPair /\ Within(data[dpos], 1)
            /\ (Within(data[dpos + 1], 1) \/ Within(data[dpos + 1], 3)))
           => LET b  == SpaceBit(data[dpos + 1])
                  k  == dstep.bit_counter
                  by == dstep.byte + b * Pow2(k)
              IN  /\ dstep'.kind = "Continue"
                  /\ dstep'.frames = dstep.frames
                  /\ ~dstep'.end_of_frame
                  /\ dstep'.bit_counter = (k + 1) % 8
                  /\ IF k = 7
                     THEN /\ dstep'.byte_list = Append(dstep.byte_list, by)
                          /\ dstep'.byte = 0
                     ELSE /\ dstep'.byte_list = dstep.byte_list
                          /\ dstep'.byte = by]_vars
    /\ []((cph = "decoded" /\ dec.ok)
            => /\ Len(dec.frames) = 1
               /\ Len(data) = 3 + 16 * Len(dec.frames[1])
               /\ \A j \in 1..Len(dec.frames[1]) :
                     dec.frames[1][j] = ByteAt(data, j))
    /\ []((cph = "decoded" /\ data = Wire(LeaderPair, <<0>>))
            => (dec.ok /\ dec.frames = <<<<0>>>>))

\* C24 witness: two bytes were decoded, the second with its bit 1 read from
\* a space at the lower edge of the band of 3 cycles
C24_Witness ==
    /\ cph = "decoded" /\ dec.ok /\ dec.frames = <<<<0, 2>>>>
    /\ data = Replace(Wire(LeaderPair, <<0, 0>>), 22, 829)

\* the chunks before index i are all data pairs that read as a bit
BitsBefore(i) ==
    \A m \in 3..(i - 1) :
        (m % 2 = 1) => /\ Within(data[m], 1)
                       /\ (Within(data[m + 1], 1) \/ Within(data[m + 1], 3))

\* the chunk at index i is a pair that is neither a bit nor a frame gap
BadPair(i) ==
    \/ ~Within(data[i], 1)
    \/ /\ data[i + 1] <= 5000
       /\ ~Within(data[i + 1], 1) /\ ~Within(data[i + 1], 3)

\* C25: tolerance bands. With a cycle of 425 a pulse matches k cycles
\* exactly when it is strictly between 65% and 135% of 425 * k. In a data
\* pair a mark outside the band of 1 cycle, or a space outside the bands of
\* 1 and 3 cycles that is not a frame gap, makes the step and the decode end
\* with UnknownBit; a pair inside the bands is read as the bit of its band.
C25_Tolerance ==
    /\ [](cph = "raw" =>
            \A i \in 1..Len(data) : \A k \in {1, 3, 4, 8} :
                cycles_in_bounds(data[i], k) <=> Within(data[i], k))
    /\ [][(DecodeChunk /\ DataPair)
           => LET p1 == data[dpos]
                  p2 == data[dpos + 1]
              IN  /\ BadPair(dpos) => dstep' = [kind |-> "Error", err |-> "UnknownBit"]
                  /\ (Within(p1, 1) /\ Within(p2, 1))
                        => /\ dstep'.kind = "Continue"
                           /\ dstep'.byte \in {dstep.byte, 0}
                           /\ dstep'.byte = 0 /\ dstep.bit_counter = 7
                                 => dstep'.byte_list = Append(dstep.byte_list, dstep.byte)
                  /\ (Within(p1, 1) /\ Within(p2, 3))
                        => /\ dstep'.kind = "Continue"
                           /\ LET by == dstep.byte + Pow2(dstep.bit_counter)
                              IN  IF dstep.bit_counter = 7
                                  THEN dstep'.byte_list = Append(dstep.byte_list, by)
                                  ELSE dstep'.byte = by]_vars
    /\ []((cph = "decoded" /\ Len(data) >= 10 /\ Len(data) % 2 = 1)
            => \A i \in 3..(Len(data) - 1) :
                  (i % 2 = 1 /\ BitsBefore(i) /\ BadPair(i))
                      => (~dec.ok /\ dec.err = "UnknownBit"))

\* C25 witness: a mark of 574, just above the band of 1 cycle, was rejected
\* after seven pairs had been read as bits
C25_Witness ==
    /\ cph = "decoded" /\ ~dec.ok /\ dec.err = "UnknownBit"
    /\ data = Replace(Wire(LeaderPair, <<131>>), 17, 574)

\* (p1, p2) is a leader (8, 4 cycles) or a repeat pair (8, 8 cycles)
LeaderOrRepeat(p1, p2) == Within(p1, 8) /\ (Within(p2, 4) \/ Within(p2, 8))

\* C26: frame gap. Inside a frame a mark of about 1 cycle followed by a
\* space above WAIT_LENGTH / 2 = 5000 appends the bytes collected so far as
\* one frame (an empty frame if there are none) and the decoder then expects
\* a leader or repeat pair: such a pair is accepted and changes nothing, any
\* other pair ends the decode with UnknownEnd and a lone pulse with OddEnd.
C26_FrameGap ==
    /\ [][(DecodeChunk /\ DataPair /\ Within(data[dpos], 1) /\ data[dpos + 1] > 5000)
           => /\ dstep'.kind = "Continue"
              /\ dstep'.frames = Append(dstep.frames, dstep.byte_list)
              /\ dstep'.byte_list = <<>>
              /\ dstep'.end_of_frame]_vars
    /\ [][(DecodeChunk /\ dstep.kind = "Continue" /\ dstep.end_of_frame)
           => IF dpos + 1 > Len(data)
              THEN dstep' = [kind |-> "Error", err |-> "OddEnd"]
              ELSE IF LeaderOrRepeat(data[dpos], data[dpos + 1])
              THEN dstep' = dstep
              ELSE dstep' = [kind |-> "Error", err |-> "UnknownEnd"]]_vars
    /\ []((cph = "decoded" /\ Len(data) >= 10 /\ Len(data) % 2 = 1)
            => \A i \in 3..(Len(data) - 1) :
                  (/\ i % 2 = 1 /\ BitsBefore(i)
                   /\ Within(data[i], 1) /\ data[i + 1] > 5000)
                  => /\ ~dec.ok
                     /\ i + 2 = Len(data) => dec.err = "OddEnd"
                     /\ (i + 2 < Len(data)
                         /\ ~LeaderOrRepeat(data[i + 2], data[i + 3]))
                          => dec.err = "UnknownEnd")

\* C26 witness: the frame <<131>> was closed by a gap of 10000 and the
\* repeat pair that followed was accepted
C26_Witness ==
    /\ data = Wire(LeaderPair, <<131>>) \o <<WAIT_LENGTH>> \o Wire(RepeatPair, <<>>)
    /\ cph = "fold" /\ dpos = 23
    /\ dstep.kind = "Continue" /\ dstep.end_of_frame
    /\ dstep.frames = <<<<131>>>> /\ dstep.byte_list = <<>>

\* C27: end of input. A lone trailing mark inside a frame ends the decode
\* successfully, with the bytes collected appended as the last frame, if
\* and only if the mark is within tolerance of 1 cycle and the bit counter
\* is 0; otherwise the decode ends with InvalidBits.
C27_EndOfInput ==
    /\ [][(DecodeChunk /\ LoneMark)
           => IF Within(data[dpos], 1) /\ dstep.bit_counter = 0
              THEN dstep' = [kind |-> "Finished",
                             frames |-> Append(dstep.frames, dstep.byte_list)]
              ELSE dstep' = [kind |-> "Error", err |-> "InvalidBits"]]_vars
    /\ []((cph = "decoded" /\ Len(data) >= 10 /\ Len(data) % 2 = 1
            /\ BitsBefore(Len(data)))
            => IF Within(data[Len(data)], 1) /\ (Len(data) - 3) % 16 = 0
               THEN dec.ok
               ELSE ~dec.ok /\ dec.err = "InvalidBits")

\* C27 witness: a good stop mark after 11 bits was rejected
C27_Witness ==
    /\ cph = "decoded" /\ ~dec.ok /\ dec.err = "InvalidBits"
    /\ data = SubSeq(Wire(LeaderPair, <<0, 131>>), 1, 25)

\* C28: unexpected end. An input of 10 or more pulses that runs out in the
\* middle of a frame (every pair a valid bit, no lone trailing stop mark) is
\* rejected with UnexpectedEnd.
C28_UnexpectedEnd ==
    (/\ cph = "decoded" /\ Len(data) >= 10 /\ Len(data) % 2 = 0
     /\ LeaderOrRepeat(data[1], data[2]) /\ BitsBefore(Len(data) + 1))
        => (~dec.ok /\ dec.err = "UnexpectedEnd")

\* pulse p (from 1) of the encoding the specification describes for the
\* bytes b: leader, 16 pulses per byte with its bits from the least
\* significant one, stop mark
ExpectedPulse(b, p) ==
    IF p = 1 THEN 8 * 425
    ELSE IF p = 2 THEN 4 * 425
    ELSE IF p % 2 = 1 THEN 425
    ELSE LET m == (p - 4) \div 2
             bit == (b[(m \div 8) + 1] \div Pow2(m % 8)) % 2
         IN  IF bit = 0 THEN 425 ELSE 3 * 425

\* C29: encode structure. For a frame of n >= 1 bytes encode emits exactly
\* the leader pair (8, 4 cycles), then per byte in order and per bit from
\* the least significant one a mark of 1 cycle and a space of 1 cycle (bit
\* 0) or 3 cycles (bit 1), then one stop mark, and nothing else: 3 + 16n
\* pulses that begin with the leader mark.
C29_EncodeStructure ==
    (cph = "encoded" /\ Len(frames_in) = 1 /\ frames_in[1] # <<>>)
        => /\ enc.ok
           /\ Len(enc.code) = 3 + 16 * Len(frames_in[1])
           /\ \A p \in 1..Len(enc.code) : enc.code[p] = ExpectedPulse(frames_in[1], p)

\* C30: encoding a list with an empty frame fails with EmptyFrame and
\* returns no pulse sequence, also when frames before it were encoded;
\* encoding non-empty frames never fails.
C30_EmptyFrame ==
    cph = "encoded" =>
        /\ (\E i \in 1..Len(frames_in) : frames_in[i] = <<>>)
              => enc = [ok |-> FALSE, err |-> "EmptyFrame"]
        /\ (\A i \in 1..Len(frames_in) : frames_in[i] # <<>>) => enc.ok

\* C30 witness: an empty frame after a non-empty one made encode fail
C30_Witness ==
    /\ cph = "encoded" /\ frames_in = <<<<128>>, <<>>>>
    /\ enc = [ok |-> FALSE, err |-> "EmptyFrame"]

\* C31: multi-frame decode. A well-formed input of two frames (leader, 8k
\* data pairs, stop mark and a gap above WAIT_LENGTH / 2, then a leader or
\* repeat pair, 8m data pairs and a lone stop mark) decodes successfully
\* into the two frames, in order, with k and m bytes.
C31_MultiFrame ==
    cph = "decoded" =>
        \A b1 \in SeqsUpTo(RawBytes, 1), b2 \in SeqsUpTo(RawBytes, 1) :
        \A g \in GapSamples, f \in {LeaderPair, RepeatPair} :
            (b1 # <<>> /\ data = Wire(LeaderPair, b1) \o <<g>> \o Wire(f, b2))
                => (dec.ok /\ dec.frames = <<b1, b2>>)

\* C32: published pulses are well-formed. Every sequence published by the
\* capture is non-empty and every pulse in it has a duration strictly
\* greater than 0, for every stream of raw durations and Timeout markers.
C32_WellFormed ==
    \A j \in 1..Len(pulses) :
        /\ pulses[j] # <<>>
        /\ \A i \in 1..Len(pulses[j]) : pulses[j][i] > 0

\* the tick of the grid a duration is snapped to
Grid(d) == IF d < 1000 THEN 10 ELSE IF d < 2000 THEN 50 ELSE 200

\* the multiple of g nearest to d, the upper one of two equally near
Nearest(d, g) == ((2 * d + g) \div (2 * g)) * g

\* C33: normalization. Every item debounce yields reaches the loop
\* normalized: a pulse of duration d as the multiple nearest to d of 10 when
\* d < 1000, of 50 when 1000 <= d < 2000 and of 200 when d >= 2000 (ties
\* round up), a Timeout marker unchanged; that value is what the loop
\* accumulates; and normalizing a normalized item returns it unchanged.
C33_Normalization ==
    /\ [][(outlog' # outlog) =>
            LET y == outlog'[Len(outlog')]
            IN  IF y.kind = "Pulse"
                THEN item' = [kind |-> "Pulse", d |-> Nearest(y.d, Grid(y.d))]
                ELSE item' = [kind |-> "Timeout"]]_vars
    /\ [][(Handles("Pulse") /\ item.d <= MAX_PULSE)
            => sequence' = Append(sequence, item.d)]_vars
    /\ [](item.kind # "None" => normalize(item) = item)

\* C33 witness: the ties 105, 1025 and 2100 went up to 110, 1050 and 2200
C33_Witness ==
    /\ outlog = <<Pulse(105), Pulse(1025), Pulse(2100)>>
    /\ sequence = <<110, 1050, 2200>>

\* the duration debounce holds back
Pending == IF last = <<>> THEN 0 ELSE last[1]

\* C35: debounce conserves time. After every message debounce has taken,
\* the raw durations it has received add up to the durations of the pulses
\* it has emitted plus the duration still pending; and after a Timeout
\* marker nothing is pending.
C35_Conservation ==
    /\ PulseSum(Prefix(sent, taken)) = PulseSum(outlog) + PulseSum(resume) + Pending
    /\ (taken > 0 /\ sent[taken].kind = "Timeout") => last = <<>>

\* C35 witness: 40 and 70 were emitted as one pulse of 110 and a later 5 is
\* pending
C35_Witness ==
    /\ taken = 3 /\ sent = <<Pulse(40), Pulse(70), Pulse(5)>>
    /\ outlog = <<Pulse(110)>> /\ last = <<5>>

\* C34: temp_up and temp_down step exactly one ladder position (revisions
\* that encode the payload). With 16 <= t < 30 temp_up changes the
\* temperature from t to t + 1 and returns the sequence of the Up trigger
\* for t + 1; with 16 < t <= 30 temp_down changes it to t - 1 and returns
\* the sequence of the Down trigger for t - 1; powered and mode are left
\* alone, so a successful temp_up can be undone by temp_down and the reverse.
C34_LadderStep ==
    /\ [][rev # "table" =>
            /\ (res'.op = "temp_up" /\ temp < T_MAX) =>
                  /\ temp' = temp + 1 /\ powered' = powered /\ mode' = mode
                  /\ res'.kind = "Ok" /\ res'.trigger = "Up"
                  /\ res'.seq = encode(<<sanyo_sequence(mode, temp + 1, "Up")>>).code
            /\ (res'.op = "temp_down" /\ temp > T_MIN) =>
                  /\ temp' = temp - 1 /\ powered' = powered /\ mode' = mode
                  /\ res'.kind = "Ok" /\ res'.trigger = "Down"
                  /\ res'.seq = encode(<<sanyo_sequence(mode, temp - 1, "Down")>>).code]_vars
    /\ []((rev # "table" /\ res.kind = "Ok" /\ res.op = "temp_up")
            => ENABLED (/\ temp_down /\ res'.kind = "Ok" /\ temp' = temp - 1
                        /\ powered' = powered /\ mode' = mode))
    /\ []((rev # "table" /\ res.kind = "Ok" /\ res.op = "temp_down")
            => ENABLED (/\ temp_up /\ res'.kind = "Ok" /\ temp' = temp + 1
                        /\ powered' = powered /\ mode' = mode))

\* C34 witness: temp_down from 17 degrees reached the bottom of the ladder
\* in a powered state
C34_Witness ==
    /\ rev = "peripherals" /\ powered /\ temp = T_MIN
    /\ res.op = "temp_down" /\ res.kind = "Ok" /\ res.trigger = "Down"

\* number of bytes in all frames of a decode result
RECURSIVE TotalBytes(_)
TotalBytes(fs) == IF fs = <<>> THEN 0 ELSE Len(Head(fs)) + TotalBytes(Tail(fs))

\* C36: successful decodes are exact. When decode returns Ok for an input
\* of L pulses, L is odd and every frame accounts for its leader pair, 16
\* pulses per byte and its stop mark (and the gap space between frames):
\* for a single frame of n bytes L = 3 + 16n, so no byte was built from
\* fewer than 8 received bits.
C36_ExactDecode ==
    (cph = "decoded" /\ dec.ok) =>
        /\ Len(data) % 2 = 1
        /\ dec.frames # <<>>
        /\ Len(data) = 16 * TotalBytes(dec.frames) + 4 * Len(dec.frames) - 1
        /\ Len(dec.frames) = 1 =>
              /\ (Len(data) - 3) % 16 = 0
              /\ 8 * Len(dec.frames[1]) = (Len(data) - 3) \div 2

\* C36 witness: 35 pulses decoded to two bytes
C36_Witness ==
    /\ cph = "decoded" /\ dec.ok /\ Len(data) = 35
    /\ dec.frames = <<<<131, 0>>>>

\* C37: byte accumulation never overflows 8 bits. In every decoder state
\* the bit counter is in 0..7 and the byte accumulator holds only bits at
\* positions below the bit counter; a step adds the bit of the position of
\* the bit counter at most once; the accumulator is 0 after a byte was
\* closed and after a frame gap; every closed byte is in 0..255.
C37_NoOverflow ==
    /\ [](dstep.kind = "Continue" =>
            /\ dstep.bit_counter \in 0..7
            /\ dstep.byte >= 0 /\ dstep.byte < Pow2(dstep.bit_counter)
            /\ \A i \in 1..Len(dstep.byte_list) : dstep.byte_list[i] \in 0..255)
    /\ [][(DecodeChunk /\ dstep.kind = "Continue" /\ dstep'.kind = "Continue") =>
            /\ dstep'.byte_list # dstep.byte_list => dstep'.byte = 0
            /\ dstep'.frames # dstep.frames => dstep'.byte = 0
            /\ (dstep'.byte_list = dstep.byte_list /\ dstep'.frames = dstep.frames)
                  => dstep'.byte \in {dstep.byte, dstep.byte + Pow2(dstep.bit_counter)}]_vars

\* C37 witness: a gap was seen with two bits of a byte collected (a space of
\* 5001 in place of the space of the third bit of 131)
C37_Witness ==
    /\ data = Replace(Wire(LeaderPair, <<131>>), 8, 5001)
    /\ dstep.kind = "Continue" /\ dstep.end_of_frame
    /\ dstep.byte = 0 /\ dstep.bit_counter = 2 /\ dstep.frames = <<<<>>>>

C39_AllOrNothing ==
    /\ [][\A c \in Clients :
            /\ (/\ reqs[c].pc # "done" /\ reqs'[c].pc = "done"
                /\ reqs'[c].ret.kind # "Ok")
                  => UNCHANGED <<powered, mode, temp, oqueue>>
            /\ (reqs[c].pc = "read" /\ reqs'[c].pc = "sent")
                  => Len(oqueue') = Len(oqueue) + 1
            /\ (reqs[c].pc = "sent" /\ reqs'[c].pc = "done")
                  => UNCHANGED oqueue]_vars
    /\ [](\A c \in Clients :
            (/\ reqs[c].pc = "done" /\ reqs[c].ret.kind = "Ok"
             /\ \A d \in Clients \ {c} : reqs[d].pc = "idle")
            => reqs[c].ret.status = reqs[c].req)

\* C40: concurrent set_ac_status calls are linearizable. When all calls have
\* succeeded the target is in the state requested by the call whose
\* send_target ran last, and a call decides whether to send a power sequence
\* on the powered value the target has when its send_target runs.
C40_Linearizable ==
    /\ []((\A c \in Clients : reqs[c].pc = "done" /\ reqs[c].ret.kind = "Ok")
            => status = reqs[sendlog[Len(sendlog)]].req)
    /\ [][\A c \in Clients :
            (reqs[c].pc = "read" /\ reqs'[c].pc = "sent")
            => reqs[c].powered_change = (powered # reqs[c].req.powered)]_vars
====
